---- MODULE Spec2Model ----
(***************************************************************************)
(* The markdown adapter of volarjs/plugins: the tracked set of markdown    *)
(* documents (syncedVersions), its synchronisation with the host project   *)
(* (sync), the three document emitters and the file-watch handler.         *)
(* Two revisions of the adapter are in the repository; `variant` selects   *)
(*   "legacy"  : packages/markdown/src/index.ts                            *)
(*   "current" : packages/markdown/index.ts                                *)
(***************************************************************************)
EXTENDS Integers, Sequences, FiniteSets, TLC

VARIABLES
    variant,            \* which revision of the adapter runs
    hasTs,              \* the host has a typescript language context
    hasVersion,         \* the host implements getProjectVersion
    files,              \* host: the registered source files, by file name
    projectVersion,     \* host: the project version counter
    lastProjectVersion, \* plugin: let lastProjectVersion
    syncedVersions,     \* plugin: Map<string, TextDocument>, in insertion order
    stack,              \* the sync calls in progress, innermost last
    fired,              \* the events delivered to listeners by the last step
    doneSync,           \* the last sync that recomputed and returned
    op,                 \* the last operation performed on the plugin
    live,               \* history: URIs reported created and not deleted since
    syncLive,           \* history: the same, counting the events of sync alone
    syncSeen,           \* history: the URIs sync ever reported created
    syncedAt,           \* history: the host's version counter at the last sync call
    held,               \* the iterator a consumer got from getAllMarkdownDocuments
    got,                \* what the consumer read from that iterator
    observed,           \* what a listener's own getAllMarkdownDocuments call returned
    call,               \* the last call of a handler or service: its input and outcome
    textDocuments,      \* host: the version of each TextDocument object it hands out
    jsonDocuments,      \* json plugin: WeakMap<TextDocument, [number, JSONDocument]>
    parsed,             \* json plugin: the calls of parseJSONDocument made so far
    initializing,       \* json plugin: let initializing, the promise held or none
    initializations,    \* json plugin: the calls of initialize() made so far
    epoch,              \* host: the settings-change notifications sent so far
    workers,            \* json plugin: the worker calls waiting at their await
    configurations,     \* json language service: the settings of each configure call so far
    packageJsons,       \* file system: the directories that hold a package.json
    uriToPackageJsonPath, \* vetur plugin: Map<string, string | undefined>
    htmlDocuments,      \* vetur plugin: WeakMap<TextDocument, HTMLDocument>
    htmlParsed,         \* vetur plugin: the calls of parseHTMLDocument made so far
    disposed            \* markdown plugin: what dispose() has released

vars == <<variant, hasTs, hasVersion, files, projectVersion, lastProjectVersion,
          syncedVersions, stack, fired, doneSync, op, live, syncLive, syncSeen,
          syncedAt,
          held, got, observed, call, textDocuments, jsonDocuments, parsed,
          initializing, initializations, epoch, workers, configurations,
          packageJsons, uriToPackageJsonPath, htmlDocuments, htmlParsed, disposed>>

----------------------------------------------------------------------------
(* Bounds of the model *)

MaxProjectVersion == 2      \* the host changes the project at most this often
MaxDepth == 2               \* nesting of sync calls made from listeners
MaxChanges == 1             \* changes carried by one file-watch event
MaxSelector == 2            \* entries of a document selector
MaxOffset == 3              \* length of the documents whose positions are mapped
MaxSpans == 2               \* mapped spans of one embedded document
MaxVersion == 3             \* versions a text document goes through
MaxDirDepth == 2            \* directories between the root and a document
MaxEpoch == 2               \* settings-change notifications the host sends
MaxWorkers == 2             \* worker calls of the json plugin in flight at once

Undefined == -1             \* the JavaScript value undefined, for a version

FileNames == {"a", "b"}
FileOrder == <<"a", "b">>
Languages == {"markdown", "html"}

----------------------------------------------------------------------------
(* The host's project: source files and their embedded trees *)

Node(id, languageId, embedded) ==
    [id |-> id, languageId |-> languageId, embeddedCodes |-> embedded]

TreeA == Node("root", "html",
              << Node("e1", "markdown", <<>>), Node("e2", "markdown", <<>>) >>)
TreeB == Node("root", "markdown",
              << Node("e1", "html", << Node("e2", "markdown", <<>>) >>) >>)

Absent == [kind |-> "absent"]
Plain(languageId, snapshot) ==
    [kind |-> "plain", languageId |-> languageId, snapshot |-> snapshot]
Generated(code, snapshot) ==
    [kind |-> "generated", languageId |-> "vue", snapshot |-> snapshot, code |-> code]

FileChoices(snapshot) ==
    { Plain(l, snapshot) : l \in Languages } \cup
    { Generated(t, snapshot) : t \in {TreeA, TreeB} }

\* a source file with a tree whose own languageId is the given one
GeneratedAs(languageId, code, snapshot) ==
    [Generated(code, snapshot) EXCEPT !.languageId = languageId]
\* a source file without tree for which context.documents.get yields no document
Undocumented(languageId, snapshot) ==
    [kind |-> "undocumented", languageId |-> languageId, snapshot |-> snapshot]

\* a source file with a tree for whose nodes context.documents.get yields no document
Unprovided(code, snapshot) ==
    [kind |-> "unprovided", languageId |-> "vue", snapshot |-> snapshot, code |-> code]

\* the files of a project, those included that only the walk tells apart
WalkChoices(snapshot) ==
    FileChoices(snapshot) \cup
    { GeneratedAs("markdown", TreeA, snapshot), Undocumented("markdown", snapshot) }

----------------------------------------------------------------------------
(* Map<string, TextDocument> as the sequence of its entries in insertion order *)

MapKeys(m) == [i \in 1..Len(m) |-> m[i].uri]
MapHas(m, uri) == \E i \in 1..Len(m) : m[i].uri = uri
MapIndex(m, uri) == CHOOSE i \in 1..Len(m) : m[i].uri = uri
MapSet(m, doc) ==
    IF MapHas(m, doc.uri)
    THEN [m EXCEPT ![MapIndex(m, doc.uri)] = doc]
    ELSE Append(m, doc)
MapDelete(m, uri) ==
    IF MapHas(m, uri)
    THEN LET k == MapIndex(m, uri)
         IN  [i \in 1..(Len(m) - 1) |-> IF i < k THEN m[i] ELSE m[i + 1]]
    ELSE m
KeySet(m) == { m[i].uri : i \in 1..Len(m) }

----------------------------------------------------------------------------
(* Documents, URIs and the selector *)

\* context.documents.get(uri, languageId, snapshot): the TextDocument of a snapshot
Doc(uri, languageId, snapshot) ==
    [uri |-> uri, languageId |-> languageId, version |-> snapshot]

\* context.env.typescript.fileNameToUri
fileNameToUri(fileName) == "file://" \o fileName

\* context.documents.getVirtualCodeUri(sourceFileId, virtualCodeId)
getVirtualCodeUri(sourceFileId, virtualCodeId) ==
    sourceFileId \o "?virtualCodeId=" \o virtualCodeId

\* legacy: the id of a virtual file, a file name derived from its source file
virtualFileId(sourceFileId, localId) == sourceFileId \o "." \o localId

\* sourceFile.id: the file name (legacy), the URI (current)
sourceFileId(v, fileName) ==
    IF v = "legacy" THEN fileName ELSE fileNameToUri(fileName)

StringSel(s) == [kind |-> "string", value |-> s, language |-> ""]
ObjectSel(l) == [kind |-> "object", value |-> "", language |-> l]

\* create({ documentSelector = ['markdown'] })
documentSelector == << StringSel("markdown") >>

RECURSIVE matchFrom(_, _, _)
\* matchFrom, were the object entries of the selector passed over
matchFromStrings(selector, i, languageId) ==
    IF i > Len(selector) THEN FALSE
    ELSE IF selector[i].kind = "string" /\ selector[i].value = languageId
         THEN TRUE
         ELSE matchFrom(selector, i + 1, languageId)

matchFrom(selector, i, languageId) ==
    IF i > Len(selector) THEN FALSE
    ELSE IF \/ (selector[i].kind = "string" /\ selector[i].value = languageId)
            \/ (selector[i].kind = "object" /\ selector[i].language = languageId)
         THEN TRUE
         ELSE matchFrom(selector, i + 1, languageId)

matchDocument(selector, document) == matchFrom(selector, 1, document.languageId)

isMarkdown(document) == document.languageId = "markdown"

\* the selector test of the running revision
Matches(v, document) ==
    IF v = "legacy" THEN isMarkdown(document)
    ELSE matchDocument(documentSelector, document)

----------------------------------------------------------------------------
(* The walk of sync: the freshly computed set *)

\* forEachEmbeddedCode, were the embedded codes of a code not descended into
forEachEmbeddedCodeShallow(code) == <<code>>

RECURSIVE forEachEmbeddedCode(_)
RECURSIVE walkAll(_, _)
\* the code itself, then every embedded code, depth first
forEachEmbeddedCode(code) == <<code>> \o walkAll(code.embeddedCodes, 1)
walkAll(codes, i) ==
    IF i > Len(codes) THEN <<>>
    ELSE forEachEmbeddedCode(codes[i]) \o walkAll(codes, i + 1)

\* the documents one source file contributes, in the order they are set
RECURSIVE setEmbedded(_, _, _, _, _, _)
\* setEmbedded, were the URI derived from the source file's id alone
setEmbeddedFileKey(v, sid, snapshot, codes, i, acc) ==
    IF i > Len(codes) THEN acc
    ELSE IF Matches(v, codes[i])
         THEN LET document == Doc(sid, codes[i].languageId, snapshot)
              IN  setEmbedded(v, sid, snapshot, codes, i + 1, MapSet(acc, document))
         ELSE setEmbedded(v, sid, snapshot, codes, i + 1, acc)

setEmbedded(v, sid, snapshot, codes, i, acc) ==
    IF i > Len(codes) THEN acc
    ELSE IF Matches(v, codes[i])
         THEN LET uri == IF v = "legacy" THEN virtualFileId(sid, codes[i].id)
                         ELSE getVirtualCodeUri(sid, codes[i].id)
                  document == Doc(uri, codes[i].languageId, snapshot)
              IN  setEmbedded(v, sid, snapshot, codes, i + 1, MapSet(acc, document))
         ELSE setEmbedded(v, sid, snapshot, codes, i + 1, acc)

\* context.documents.get for a source file itself
NoDocument == [uri |-> "", languageId |-> "", version |-> Undefined]
documentsGet(fileName, sourceFile) ==
    IF sourceFile.kind = "undocumented" THEN NoDocument
    ELSE Doc(fileName, sourceFile.languageId, sourceFile.snapshot)

\* setSourceFile, were a file with a tree a candidate itself as well
setSourceFileItselfToo(v, fileName, sourceFile, acc) ==
    LET document == documentsGet(fileName, sourceFile)
        own == IF document # NoDocument /\ Matches(v, document)
               THEN MapSet(acc, document) ELSE acc
    IN  IF sourceFile.kind = "generated"
        THEN setEmbedded(v, sourceFileId(v, fileName), sourceFile.snapshot,
                         forEachEmbeddedCode(sourceFile.code), 1, own)
        ELSE own

setSourceFile(v, fileName, sourceFile, acc) ==
    IF sourceFile.kind = "generated"
    THEN setEmbedded(v, sourceFileId(v, fileName), sourceFile.snapshot,
                     forEachEmbeddedCode(sourceFile.code), 1, acc)
    ELSE LET document == documentsGet(fileName, sourceFile)
         IN  IF document # NoDocument /\ Matches(v, document)
             THEN MapSet(acc, document) ELSE acc

\* for (const fileName of getScriptFileNames()) / getAllSourceFiles()
RECURSIVE walkFiles(_, _, _, _)
walkFiles(v, fs, i, acc) ==
    IF i > Len(FileOrder) THEN acc
    ELSE IF fs[FileOrder[i]].kind = "absent"
         THEN walkFiles(v, fs, i + 1, acc)
         ELSE walkFiles(v, fs, i + 1, setSourceFile(v, FileOrder[i], fs[FileOrder[i]], acc))

computeNewVersions(v, fs) == walkFiles(v, fs, 1, <<>>)

----------------------------------------------------------------------------
(* Events and the reconciling loops of sync *)

Event(type, uri, source) == [type |-> type, uri |-> uri, source |-> source]

RECURSIVE applyEvents(_, _, _)
\* the URIs reported created and not deleted since, after the events from i on
applyEvents(set, events, i) ==
    IF i > Len(events) THEN set
    ELSE applyEvents(
            IF events[i].type = "created" THEN set \cup {events[i].uri}
            ELSE IF events[i].type = "deleted" THEN set \ {events[i].uri}
            ELSE set,
            events, i + 1)

NoSync == [phase |-> "none"]

\* a sync call past its version check: oldVersions, newVersions and the loop position
Frame(trigger, synced, new) ==
    [trigger |-> trigger, before |-> synced, old |-> MapKeys(synced), new |-> new,
     phase |-> "new", i |-> 0, events |-> <<>>]

\* stepNew, were every document of the new set reported as created
stepNewAlwaysCreated(frame, synced) ==
    LET document == frame.new[frame.i + 1]
        event == Event("created", document.uri, "sync")
    IN  [frame  |-> [frame EXCEPT !.i = @ + 1, !.events = Append(@, event)],
         synced |-> MapSet(synced, document),
         fired  |-> <<event>>,
         done   |-> FALSE]

\* stepNew, were the new set gone through from its last entry to its first
stepNewReversed(frame, synced) ==
    LET document == frame.new[Len(frame.new) - frame.i]
        old == MapHas(synced, document.uri)
        event == Event(IF old THEN "changed" ELSE "created", document.uri, "sync")
    IN  [frame  |-> [frame EXCEPT !.i = @ + 1, !.events = Append(@, event)],
         synced |-> MapSet(synced, document),
         fired  |-> <<event>>,
         done   |-> FALSE]

\* for (const [uri, document] of newVersions): one iteration, up to its fire
stepNew(frame, synced) ==
    LET document == frame.new[frame.i + 1]
        old == MapHas(synced, document.uri)
        event == Event(IF old THEN "changed" ELSE "created", document.uri, "sync")
    IN  [frame  |-> [frame EXCEPT !.i = @ + 1, !.events = Append(@, event)],
         synced |-> MapSet(synced, document),
         fired  |-> <<event>>,
         done   |-> FALSE]

\* stepOld, were the second loop left out
stepOldNoDeletes(frame, synced) ==
    [frame  |-> [frame EXCEPT !.phase = "done", !.i = Len(frame.old)],
     synced |-> synced, fired |-> <<>>, done |-> TRUE]

\* stepOld, were the test newVersions.has(uri) left out
stepOldDeletesAll(frame, synced) ==
    IF frame.i >= Len(frame.old)
    THEN [frame  |-> [frame EXCEPT !.phase = "done", !.i = Len(frame.old)],
          synced |-> synced, fired |-> <<>>, done |-> TRUE]
    ELSE LET event == Event("deleted", frame.old[frame.i + 1], "sync")
         IN  [frame  |-> [frame EXCEPT !.i = @ + 1, !.events = Append(@, event)],
              synced |-> MapDelete(synced, frame.old[frame.i + 1]),
              fired  |-> <<event>>,
              done   |-> FALSE]

\* for (const uri of oldVersions): on to the next uri that newVersions lacks
stepOld(frame, synced) ==
    LET rest == { j \in (frame.i + 1)..Len(frame.old) : ~MapHas(frame.new, frame.old[j]) }
    IN  IF rest = {}
        THEN [frame  |-> [frame EXCEPT !.phase = "done", !.i = Len(frame.old)],
              synced |-> synced, fired |-> <<>>, done |-> TRUE]
        ELSE LET j == CHOOSE k \in rest : \A l \in rest : k <= l
                 event == Event("deleted", frame.old[j], "sync")
             IN  [frame  |-> [frame EXCEPT !.i = j, !.events = Append(@, event)],
                  synced |-> MapDelete(synced, frame.old[j]),
                  fired  |-> <<event>>,
                  done   |-> FALSE]

\* sync, from where it stands to its next listener call or to its return
runSync(frame, synced) ==
    IF frame.phase = "new" /\ frame.i < Len(frame.new) THEN stepNew(frame, synced)
    ELSE IF frame.phase = "new"
         THEN stepOld([frame EXCEPT !.phase = "old", !.i = 0], synced)
         ELSE stepOld(frame, synced)

\* context.project.typescript?.projectHost.getProjectVersion?.()
getProjectVersion(v, ts, hv, version) ==
    IF ts /\ hv THEN version ELSE Undefined

shouldUpdateAlways(newProjectVersion, last) == TRUE

\* shouldUpdate, were the test for undefined left out
shouldUpdateIfDifferent(newProjectVersion, last) == newProjectVersion # last

shouldUpdate(newProjectVersion, last) ==
    newProjectVersion = Undefined \/ newProjectVersion # last

\* syncRuns, were the test for the typescript language context left out
syncRunsWithoutContext(v, ts, hv, version, last) ==
    shouldUpdate(getProjectVersion(v, ts, hv, version), last)

\* sync goes past its early returns
syncRuns(v, ts, hv, version, last) ==
    /\ (v = "current" => ts)
    /\ shouldUpdate(getProjectVersion(v, ts, hv, version), last)

----------------------------------------------------------------------------
(* Lookups of the workspace *)

NoDoc == [uri |-> "", languageId |-> "", version |-> Undefined]

embeddedUri(v, sid, localId) ==
    IF v = "legacy" THEN virtualFileId(sid, localId) ELSE getVirtualCodeUri(sid, localId)

\* the virtual codes the host knows, each with the URI it is found under
virtualCodes(v, fs) ==
    UNION { LET codes == forEachEmbeddedCode(fs[f].code)
            IN  { [uri |-> embeddedUri(v, sourceFileId(v, f), codes[i].id),
                   languageId |-> codes[i].languageId,
                   snapshot |-> fs[f].snapshot] : i \in 1..Len(codes) }
            : f \in { g \in FileNames : fs[g].kind = "generated" } }

\* the source files the host knows, each with the URI it is found under
sourceFiles(v, fs) ==
    { [uri |-> sourceFileId(v, f), languageId |-> fs[f].languageId,
       snapshot |-> fs[f].snapshot] : f \in { g \in FileNames : fs[g].kind # "absent" } }

getTextDocument(v, fs, uri, includeVirtualFile) ==
    LET vcs == { c \in virtualCodes(v, fs) : c.uri = uri }
        sfs == { f \in sourceFiles(v, fs) : f.uri = uri }
    IN  IF includeVirtualFile /\ vcs # {}
        THEN LET c == CHOOSE c \in vcs : TRUE IN Doc(uri, c.languageId, c.snapshot)
        ELSE IF sfs # {}
             THEN LET f == CHOOSE f \in sfs : TRUE IN Doc(uri, f.languageId, f.snapshot)
             ELSE NoDoc

\* the URI the watcher reports: that of a file the project may hold or not
WatchUris(v) == { sourceFileId(v, "a") }

\* the URIs the workspace is asked about: that one, and an embedded code's
Uris(v) == WatchUris(v) \cup { embeddedUri(v, sourceFileId(v, "a"), "e2") }

\* the host's file system: fs.stat(uri).type, 0 when there is no such entry
statType(fs, v, uri) ==
    IF \E f \in sourceFiles(v, fs) : f.uri = uri /\ f.languageId = "vue" THEN 2
    ELSE IF \E f \in sourceFiles(v, fs) : f.uri = uri THEN 1
    ELSE 0

----------------------------------------------------------------------------
(* The state machine *)

NoOp == [name |-> "none", step |-> "call", arg |-> "", result |-> "", repeat |-> FALSE]
Op(name, arg, result, repeat) ==
    [name |-> name, step |-> "call", arg |-> arg, result |-> result, repeat |-> repeat]

NotHeld == [active |-> FALSE, atCall |-> <<>>]
NoGot == [read |-> FALSE, atCall |-> <<>>, docs |-> <<>>]
NotObserved == [seen |-> FALSE, docs |-> <<>>, old |-> <<>>, new |-> <<>>]
NoCall == [name |-> "none"]

\* the TextDocument objects the host hands to the providers
TextDocumentIds == {"d1", "d2", "d3", "d4"}
LanguageOf == [d \in TextDocumentIds |->
                 IF d = "d1" THEN "json" ELSE IF d = "d2" THEN "jsonc" ELSE "html"]

\* the state of the json plugin instance and of the documents it is given
settings == <<initializing, initializations, epoch, workers, configurations>>
json == <<textDocuments, jsonDocuments, parsed, settings>>
NoCache == [cached |-> FALSE, version |-> 0, doc |-> 0]

\* the state of the vetur plugin instance and of the file system it looks into
vetur == <<packageJsons, uriToPackageJsonPath, htmlDocuments, htmlParsed>>

\* a directory is the sequence of the names on the way to it; the root is <<>>
Dirs == { [i \in 1..n |-> "d"] : n \in 0..MaxDirDepth }
\* document.uri, parsed: its scheme and the path of the file
DocumentUri(scheme, dir) == [scheme |-> scheme, fsPath |-> Append(dir, "x.html")]
DocumentUris == { DocumentUri(scheme, dir) : scheme \in {"file", "untitled"}, dir \in Dirs }
\* string | undefined, for the path of a package.json
NotFound == [found |-> FALSE, path |-> <<>>]
Found(dir) == [found |-> TRUE, path |-> Append(dir, "package.json")]

SyncTriggers == {"getAllMarkdownDocuments", "prepare", "provideWorkspaceSymbols"}

Init ==
    /\ variant \in {"legacy", "current"}
    \* legacy reads the version through context.project.typescript?. and nothing
    \* else of it: there a host without typescript is a host without version
    /\ hasTs \in IF variant = "legacy" THEN {TRUE} ELSE BOOLEAN
    /\ hasVersion \in BOOLEAN
    /\ files = [f \in FileNames |-> Absent]
    /\ projectVersion = 0
    /\ lastProjectVersion = Undefined
    /\ syncedVersions = <<>>
    /\ stack = <<>>
    /\ fired = <<>>
    /\ doneSync = NoSync
    /\ op = NoOp
    /\ live = {}
    /\ syncLive = {}
    /\ syncSeen = {}
    /\ syncedAt = Undefined
    /\ held = NotHeld
    /\ got = NoGot
    /\ observed = NotObserved
    /\ call = NoCall
    /\ textDocuments = [d \in TextDocumentIds |->
                            [languageId |-> LanguageOf[d], version |-> 1]]
    /\ jsonDocuments = [d \in TextDocumentIds |-> NoCache]
    /\ parsed = <<>>
    /\ initializing = 0
    /\ initializations = <<>>
    /\ epoch = 0
    /\ workers = {}
    /\ configurations = <<>>
    /\ packageJsons = {}
    /\ uriToPackageJsonPath = [u \in DocumentUris |-> NotFound]
    /\ htmlDocuments = [d \in TextDocumentIds |-> 0]
    /\ htmlParsed = <<>>
    /\ disposed = {}

\* the events of a step reach the listeners
\* the emitter an event is fired on
emitterOf(type) ==
    IF type = "changed" THEN "onDidChangeMarkdownDocument"
    ELSE IF type = "created" THEN "onDidCreateMarkdownDocument"
    ELSE "onDidDeleteMarkdownDocument"

\* Emitter.fire: an emitter that was disposed of has no listener left to call
Delivered(events, released) ==
    LET Heard(event) == emitterOf(event.type) \notin released
    IN  SelectSeq(events, Heard)

FireDelivered(events, fromSync) ==
    /\ fired' = events
    /\ live' = applyEvents(live, events, 1)
    /\ syncLive' = IF fromSync THEN applyEvents(syncLive, events, 1) ELSE syncLive
    /\ syncSeen' = IF fromSync
                   THEN syncSeen \cup { events[i].uri : i \in { j \in 1..Len(events) :
                                                               events[j].type = "created" } }
                   ELSE syncSeen

Fire(events, fromSync) == FireDelivered(Delivered(events, disposed), fromSync)

\* a sync call returns to the one that made it
Return(trigger, synced, outer) ==
    /\ held' = IF trigger = "getAllMarkdownDocuments"
               THEN [active |-> TRUE, atCall |-> synced] ELSE held
    /\ observed' = IF trigger = "listener"
                   THEN [seen |-> TRUE, docs |-> synced,
                         old |-> outer[1].before, new |-> outer[1].new]
                   ELSE NotObserved

config == <<variant, hasTs, hasVersion>>
host == <<files, projectVersion>>

\* the host changes the project, and its version with it
HostSetFile(f, choice) ==
    /\ stack = <<>>
    /\ projectVersion < MaxProjectVersion
    /\ files' = [files EXCEPT ![f] = choice]
    /\ projectVersion' = projectVersion + 1
    /\ op' = NoOp
    /\ doneSync' = NoSync
    /\ got' = NoGot
    /\ observed' = NotObserved
    /\ Fire(<<>>, FALSE)
    /\ call' = NoCall
    /\ UNCHANGED <<json, vetur, disposed>>
    /\ UNCHANGED <<config, lastProjectVersion, syncedVersions, stack, syncedAt, held>>

HostSet == \E f \in FileNames : \E c \in FileChoices(projectVersion + 1) : HostSetFile(f, c)

HostRemove == \E f \in FileNames : files[f].kind # "absent" /\ HostSetFile(f, Absent)

\* the host registers a file of any of the kinds the walk tells apart
HostOpen == \E f \in FileNames : \E c \in WalkChoices(projectVersion + 1) : HostSetFile(f, c)

\* the project version moves for a reason that touches no tracked file
HostTouch ==
    /\ stack = <<>>
    /\ projectVersion < MaxProjectVersion
    /\ projectVersion' = projectVersion + 1
    /\ op' = NoOp
    /\ doneSync' = NoSync
    /\ got' = NoGot
    /\ observed' = NotObserved
    /\ Fire(<<>>, FALSE)
    /\ call' = NoCall
    /\ UNCHANGED <<json, vetur, disposed>>
    /\ UNCHANGED <<config, files, lastProjectVersion, syncedVersions, stack, syncedAt, held>>

\* const sync = () => { ... }, up to its first listener call or its return
SyncCall(trigger) ==
    LET newProjectVersion == getProjectVersion(variant, hasTs, hasVersion, projectVersion)
    IN  /\ syncedAt' = projectVersion
        /\ IF ~syncRuns(variant, hasTs, hasVersion, projectVersion, lastProjectVersion)
           THEN /\ UNCHANGED <<lastProjectVersion, syncedVersions, stack>>
                /\ doneSync' = NoSync
                /\ Fire(<<>>, TRUE)
                /\ Return(trigger, syncedVersions, stack)
           ELSE LET r == runSync(Frame(trigger, syncedVersions,
                                       computeNewVersions(variant, files)),
                                 syncedVersions)
                IN  /\ lastProjectVersion' = newProjectVersion
                    /\ syncedVersions' = r.synced
                    /\ Fire(r.fired, TRUE)
                    /\ IF r.done
                       THEN /\ stack' = stack
                            /\ doneSync' = r.frame
                            /\ Return(trigger, r.synced, stack)
                       ELSE /\ stack' = Append(stack, r.frame)
                            /\ doneSync' = NoSync
                            /\ observed' = NotObserved
                            /\ held' = held

Repeat == syncedAt = projectVersion

\* workspace.getAllMarkdownDocuments()
GetAllMarkdownDocuments ==
    /\ stack = <<>>
    /\ op' = Op("getAllMarkdownDocuments", "", "", Repeat)
    /\ SyncCall("getAllMarkdownDocuments")
    /\ got' = NoGot
    /\ call' = NoCall
    /\ UNCHANGED <<json, vetur, disposed>>
    /\ UNCHANGED <<config, host>>

\* a document-scoped provider, as far as the tracker goes: prepare(document)
ProvideOf(languageId) ==
    /\ stack = <<>>
    /\ got' = NoGot
    /\ UNCHANGED <<json, vetur, disposed>>
    /\ UNCHANGED <<config, host>>
    /\ IF Matches(variant, [languageId |-> languageId])
       THEN /\ op' = Op("prepare", languageId, "true", Repeat)
            /\ SyncCall("prepare")
       ELSE /\ op' = Op("prepare", languageId, "false", FALSE)
            /\ doneSync' = NoSync
            /\ observed' = NotObserved
            /\ Fire(<<>>, FALSE)
            /\ UNCHANGED <<lastProjectVersion, syncedVersions, stack, syncedAt, held>>

\* a document-scoped provider: if (prepare(document)) { ... }
Provide == \E languageId \in Languages : ProvideOf(languageId) /\ call' = NoCall

\* the providers that are given a document
DocumentProviders ==
    {"provideCodeActions", "provideCompletionItems", "provideDefinition",
     "provideDiagnostics", "provideDocumentHighlights", "provideDocumentLinks",
     "provideDocumentSymbols", "provideFileReferences", "provideFoldingRanges",
     "provideReferences", "provideRenameEdits", "provideRenameRange",
     "provideSelectionRanges"}

\* provideCalls, were the language service asked before prepare
provideCallsUngated(v, provider, document, configured) ==
    IF Matches(v, document) THEN <<"ls", "sync">> ELSE <<"ls">>

\* what a provider calls, in the order it calls it: sync through prepare, then the
\* markdown language service
provideCalls(v, provider, document, configured) ==
    IF ~Matches(v, document) THEN <<>>
    ELSE IF provider = "provideDiagnostics" /\ v = "current" /\ ~configured
         THEN <<"sync">>
         ELSE <<"sync", "ls">>

\* a request for a feature of a document; getDiagnosticOptions gives options or not
ProvideFeature ==
    \E provider \in DocumentProviders, languageId \in Languages, configured \in BOOLEAN :
        /\ provider # "provideDiagnostics" => configured
        /\ ProvideOf(languageId)
        /\ call' = [name |-> "provide", provider |-> provider,
                    languageId |-> languageId,
                    calls |-> provideCalls(variant, provider,
                                           [languageId |-> languageId], configured)]

\* provideWorkspaceSymbols(query, token)
ProvideWorkspaceSymbols ==
    /\ stack = <<>>
    /\ op' = Op("provideWorkspaceSymbols", "", "", Repeat)
    /\ SyncCall("provideWorkspaceSymbols")
    /\ got' = NoGot
    /\ call' = NoCall
    /\ UNCHANGED <<json, vetur, disposed>>
    /\ UNCHANGED <<config, host>>

\* the listener of the last event returns and the sync that fired it goes on
ListenerReturn ==
    /\ stack # <<>>
    /\ LET top == stack[Len(stack)]
           outer == SubSeq(stack, 1, Len(stack) - 1)
           r == runSync(top, syncedVersions)
       IN  /\ syncedVersions' = r.synced
           /\ Fire(r.fired, TRUE)
           /\ IF r.done
              THEN /\ stack' = outer
                   /\ doneSync' = r.frame
                   /\ Return(top.trigger, r.synced, outer)
              ELSE /\ stack' = Append(outer, r.frame)
                   /\ doneSync' = NoSync
                   /\ observed' = NotObserved
                   /\ held' = held
    /\ op' = [op EXCEPT !.step = "resume"]
    /\ got' = NoGot
    /\ call' = NoCall
    /\ UNCHANGED <<json, vetur, disposed>>
    /\ UNCHANGED <<config, host, lastProjectVersion, syncedAt>>

\* onDidChangeWatchedFiles((event) => { for (const change of event.changes) ... })
RECURSIVE watchEvents(_, _, _, _)
\* watchEvents, were a 'deleted' change relayed only for a file the project holds
watchEventsGuarded(v, fs, changes, i) ==
    IF i > Len(changes) THEN <<>>
    ELSE LET type == <<"created", "changed", "deleted">>[changes[i].type]
         IN  IF getTextDocument(v, fs, changes[i].uri, FALSE) # NoDoc
             THEN <<Event(type, changes[i].uri, "watch")>> \o watchEvents(v, fs, changes, i + 1)
             ELSE watchEvents(v, fs, changes, i + 1)

watchEvents(v, fs, changes, i) ==
    IF i > Len(changes) THEN <<>>
    ELSE LET change == changes[i]
             document == getTextDocument(v, fs, change.uri, FALSE)
             rest == watchEvents(v, fs, changes, i + 1)
         IN  IF change.type = 2
             THEN IF document # NoDoc
                  THEN <<Event("changed", change.uri, "watch")>> \o rest ELSE rest
             ELSE IF change.type = 1
             THEN IF document # NoDoc
                  THEN <<Event("created", change.uri, "watch")>> \o rest ELSE rest
             ELSE IF change.type = 3
             THEN <<Event("deleted", change.uri, "watch")>> \o rest
             ELSE rest

\* fileWatcher, were a deleted file also dropped from the tracked set
fileWatcherForgets(v, fs, changes, synced) ==
    [fired |-> watchEvents(v, fs, changes, 1),
     synced |-> IF changes[1].type = 3 THEN MapDelete(synced, changes[1].uri) ELSE synced]

\* what the file-watch handler does: the events it fires, the tracked set it leaves
fileWatcher(v, fs, changes, synced) ==
    [fired |-> watchEvents(v, fs, changes, 1), synced |-> synced]

Changes(v) ==
    UNION { [1..n -> [type : 1..3, uri : WatchUris(v)]] : n \in 1..MaxChanges }

\* the frame of an operation that calls no sync
NoSyncCall ==
    /\ doneSync' = NoSync
    /\ got' = NoGot
    /\ observed' = NotObserved
    /\ UNCHANGED <<json, vetur, disposed>>
    /\ UNCHANGED <<config, host, lastProjectVersion, stack, syncedAt, held>>

\* the walk reads document.uri of a document it did not get
walkFails(v, fs) ==
    \E f \in FileNames :
        /\ fs[f].kind = "unprovided"
        /\ \E i \in DOMAIN forEachEmbeddedCode(fs[f].code) :
              Matches(v, forEachEmbeddedCode(fs[f].code)[i])

\* a sync whose walk is cut short by an exception: context.documents.get throws,
\* or the walk uses a document it did not get
WalkThrows ==
    /\ stack = <<>>
    /\ syncRuns(variant, hasTs, hasVersion, projectVersion, lastProjectVersion)
    /\ \E f \in FileNames : files[f].kind # "absent"
    /\ lastProjectVersion' =
          getProjectVersion(variant, hasTs, hasVersion, projectVersion)
    /\ syncedAt' = projectVersion
    /\ op' = Op("provideWorkspaceSymbols", "", "threw", Repeat)
    /\ doneSync' = NoSync
    /\ got' = NoGot
    /\ observed' = NotObserved
    /\ Fire(<<>>, TRUE)
    /\ call' = NoCall
    /\ UNCHANGED <<json, vetur, disposed>>
    /\ UNCHANGED <<config, host, syncedVersions, stack, held>>

\* the host delivers one file-watch event
FileWatchOf(changes) ==
    LET r == fileWatcher(variant, files, changes, syncedVersions)
    IN  /\ stack = <<>>
        \* a subscription that was disposed of gets no more events from the host
        /\ "fileWatcher" \notin disposed
        /\ op' = Op("fileWatcher", "", "", FALSE)
        /\ syncedVersions' = r.synced
        /\ Fire(r.fired, FALSE)
        /\ NoSyncCall

FileWatch ==
    \E changes \in Changes(variant) : FileWatchOf(changes) /\ call' = NoCall

\* the same, the event delivered being kept next to what the handler fired
WatchedFilesChange ==
    \E changes \in Changes(variant) :
        FileWatchOf(changes) /\ call' = [name |-> "fileWatcher", changes |-> changes]

\* a query of the workspace that fires nothing
Query(name, arg, result) ==
    /\ stack = <<>>
    /\ op' = Op(name, arg, result, FALSE)
    /\ call' = NoCall
    /\ Fire(<<>>, FALSE)
    /\ NoSyncCall
    /\ UNCHANGED syncedVersions

hasMarkdownDocument(v, fs, uri) ==
    LET document == getTextDocument(v, fs, uri, TRUE)
    IN  document # NoDoc /\ Matches(v, document)

HasMarkdownDocument ==
    \E uri \in Uris(variant) :
        Query("hasMarkdownDocument", uri,
              IF hasMarkdownDocument(variant, files, uri) THEN "true" ELSE "false")

OpenMarkdownDocument ==
    \E uri \in Uris(variant) :
        Query("openMarkdownDocument", uri,
              IF getTextDocument(variant, files, uri, TRUE) # NoDoc
              THEN "document" ELSE "undefined")

\* readDirectory and stat: { isDirectory: type === 2 }
ReadDirectory ==
    \E uri \in WatchUris(variant) :
        Query("readDirectory", uri,
              IF statType(files, variant, uri) = 2 THEN "entries" ELSE "empty")

Stat ==
    \E uri \in WatchUris(variant) :
        Query("stat", uri,
              IF statType(files, variant, uri) = 0 THEN "undefined"
              ELSE IF statType(files, variant, uri) = 2 THEN "directory" ELSE "file")

GetContainingDocument == Query("getContainingDocument", "", "undefined")

\* the consumer reads the iterator it was given: Map.prototype.values() is live
iterate(atCall, synced) == synced

ConsumerIterate ==
    /\ stack = <<>>
    /\ held.active
    /\ got' = [read |-> TRUE, atCall |-> held.atCall,
               docs |-> iterate(held.atCall, syncedVersions)]
    /\ held' = NotHeld
    /\ op' = Op("iterate", "", "", FALSE)
    /\ doneSync' = NoSync
    /\ observed' = NotObserved
    /\ Fire(<<>>, FALSE)
    /\ call' = NoCall
    /\ UNCHANGED <<json, vetur, disposed>>
    /\ UNCHANGED <<config, host, lastProjectVersion, syncedVersions, stack, syncedAt>>

\* a listener, while it runs, asks the workspace for all documents
ListenerGetAll ==
    /\ stack # <<>>
    /\ Len(stack) < MaxDepth
    /\ SyncCall("listener")
    /\ op' = [op EXCEPT !.step = "reenter"]
    /\ got' = NoGot
    /\ call' = NoCall
    /\ UNCHANGED <<json, vetur, disposed>>
    /\ UNCHANGED <<config, host>>

Host == HostSet \/ HostRemove \/ HostTouch

SyncTrigger == GetAllMarkdownDocuments \/ Provide \/ ProvideWorkspaceSymbols

\* requests, their syncs and the consumers of getAllMarkdownDocuments
Next ==
    \/ HostSet
    \/ HostRemove
    \/ HostTouch
    \/ GetAllMarkdownDocuments
    \/ Provide
    \/ ProvideWorkspaceSymbols
    \/ ListenerReturn
    \/ ConsumerIterate

Spec == Init /\ [][Next]_vars

\* a request that syncs, with file-watch events arriving in between
NextWatch ==
    \/ HostSet
    \/ HostRemove
    \/ HostTouch
    \/ ProvideWorkspaceSymbols
    \/ ListenerReturn
    \/ FileWatch

SpecWatch == Init /\ [][NextWatch]_vars

\* the workspace handed to the markdown language service: its queries and the watcher
NextWorkspace ==
    \/ HostSet
    \/ ProvideWorkspaceSymbols
    \/ ListenerReturn
    \/ FileWatch
    \/ HasMarkdownDocument
    \/ OpenMarkdownDocument
    \/ ReadDirectory
    \/ Stat
    \/ GetContainingDocument

SpecWorkspace == Init /\ [][NextWorkspace]_vars

\* listeners that call back into the workspace while a sync is firing events
NextReentrant ==
    \/ HostSet
    \/ HostRemove
    \/ HostTouch
    \/ GetAllMarkdownDocuments
    \/ Provide
    \/ ProvideWorkspaceSymbols
    \/ ListenerReturn
    \/ ListenerGetAll

SpecReentrant == Init /\ [][NextReentrant]_vars

----------------------------------------------------------------------------
(* Construction of the plugin instance, and the selector on its own *)

\* the tracker's variables, which the calls below do not touch
tracker == <<config, host, lastProjectVersion, syncedVersions, stack, fired, doneSync,
             op, live, syncLive, syncSeen, syncedAt, held, got, observed, disposed>>

\* no call has been made yet: the calls below keep no state from one to the next,
\* so each is looked at on its own
Idle == call = NoCall

\* function assert(condition, message): what it throws, if it does
assert(condition, message) ==
    IF condition THEN [thrown |-> FALSE, message |-> ""]
    ELSE [thrown |-> TRUE, message |-> message]

\* createSteps, were the capabilities asserted after the instance is wired up
createStepsLate ==
    << "emitters", "fileWatcher", "assert fs", "assert onDidChangeWatchedFiles",
       "languageService" >>

\* create(context): its statements with an effect, in their order
createSteps ==
    << "assert fs", "assert onDidChangeWatchedFiles", "emitters", "fileWatcher",
       "languageService" >>

RECURSIVE construct(_, _, _, _)
\* the steps from i on: what has been set up when create returns or throws
construct(steps, i, env, made) ==
    IF i > Len(steps) THEN [thrown |-> FALSE, message |-> "", made |-> made]
    ELSE LET a == IF steps[i] = "assert fs"
                  THEN assert(env.fs, "context.env.fs must be defined")
                  ELSE IF steps[i] = "assert onDidChangeWatchedFiles"
                  THEN assert(env.onDidChangeWatchedFiles,
                              "context.env.fs.onDidChangeWatchedFiles must be defined")
                  ELSE assert(TRUE, "")
         IN  IF a.thrown THEN [thrown |-> TRUE, message |-> a.message, made |-> made]
             ELSE IF steps[i] \in {"assert fs", "assert onDidChangeWatchedFiles"}
                  THEN construct(steps, i + 1, env, made)
                  ELSE construct(steps, i + 1, env, made \cup {steps[i]})

\* create(context); legacy: if (!context) return {}
create(v, hasContext, env) ==
    IF v = "legacy" /\ ~hasContext
    THEN [thrown |-> FALSE, message |-> "", made |-> {}]
    ELSE construct(createSteps, 1, env, {})

Create ==
    /\ Idle
    /\ \E hasContext \in IF variant = "legacy" THEN BOOLEAN ELSE {TRUE} :
       \E fs \in BOOLEAN, onDidChangeWatchedFiles \in BOOLEAN :
           LET env == [fs |-> fs, onDidChangeWatchedFiles |-> onDidChangeWatchedFiles]
           IN  /\ call' = [name |-> "create", context |-> hasContext, env |-> env,
                           result |-> create(variant, hasContext, env)]
               /\ UNCHANGED <<tracker, json, vetur>>

SelectorEntries ==
    { StringSel(l) : l \in Languages } \cup { ObjectSel(l) : l \in Languages \cup {""} }

Selectors == UNION { [1..n -> SelectorEntries] : n \in 0..MaxSelector }

MatchDocument ==
    /\ Idle
    /\ \E selector \in Selectors, languageId \in Languages :
           /\ call' = [name |-> "matchDocument", selector |-> selector,
                       languageId |-> languageId,
                       matched |-> matchDocument(selector, [languageId |-> languageId])]
           /\ UNCHANGED <<tracker, json, vetur>>

\* a plugin instance is created; a selector is matched against a document
NextServices ==
    \/ Create
    \/ MatchDocument

SpecServices == Init /\ [][NextServices]_vars

----------------------------------------------------------------------------
(* Text, as the sequence of its characters *)

Letters == {"a", "x"}
Whitespace == {" ", "\n"}

\* String.prototype.trim
RECURSIVE trimStart(_)
trimStart(text) ==
    IF text # <<>> /\ Head(text) \in Whitespace THEN trimStart(Tail(text)) ELSE text

RECURSIVE trimEnd(_)
trimEnd(text) ==
    IF text # <<>> /\ text[Len(text)] \in Whitespace
    THEN trimEnd(SubSeq(text, 1, Len(text) - 1)) ELSE text

trim(text) == trimEnd(trimStart(text))

\* the index of the first '>' from i on, 0 when there is none
RECURSIVE indexOfGt(_, _)
indexOfGt(text, i) ==
    IF i > Len(text) THEN 0
    ELSE IF text[i] = ">" THEN i ELSE indexOfGt(text, i + 1)

\* /(<[a-z][^>]*>)([^ \n])/gi matched at i: the index of its last character, or 0
openTagAt(text, i) ==
    IF i + 1 <= Len(text) /\ text[i] = "<" /\ text[i + 1] \in Letters
    THEN LET j == indexOfGt(text, i + 2)
         IN  IF j # 0 /\ j + 1 <= Len(text) /\ text[j + 1] \notin Whitespace
             THEN j + 1 ELSE 0
    ELSE 0

\* .replace(/(<[a-z][^>]*>)([^ \n])/gi, '$1 $2'), from i on
RECURSIVE breakAfterOpenTags(_, _)
breakAfterOpenTags(text, i) ==
    IF i > Len(text) THEN <<>>
    ELSE LET e == openTagAt(text, i)
         IN  IF e # 0
             THEN SubSeq(text, i, e - 1) \o <<" ", text[e]>> \o breakAfterOpenTags(text, e + 1)
             ELSE <<text[i]>> \o breakAfterOpenTags(text, i + 1)

\* [a-z0-9\t\n\r -]* then '>', from i on: the index of that '>', or 0
RECURSIVE closeTagEnd(_, _)
closeTagEnd(text, i) ==
    IF i > Len(text) THEN 0
    ELSE IF text[i] \in Letters \cup Whitespace THEN closeTagEnd(text, i + 1)
    ELSE IF text[i] = ">" THEN i
    ELSE 0

\* /([^ \n])(<\/[a-z][a-z0-9\t\n\r -]*>)/gi matched at i: the index of its '>', or 0
closeTagAt(text, i) ==
    IF /\ i + 3 <= Len(text)
       /\ text[i] \notin Whitespace
       /\ text[i + 1] = "<"
       /\ text[i + 2] = "/"
       /\ text[i + 3] \in Letters
    THEN closeTagEnd(text, i + 4)
    ELSE 0

\* .replace(/([^ \n])(<\/[a-z][a-z0-9\t\n\r -]*>)/gi, '$1 $2'), from i on
RECURSIVE breakBeforeCloseTags(_, _)
breakBeforeCloseTags(text, i) ==
    IF i > Len(text) THEN <<>>
    ELSE LET e == closeTagAt(text, i)
         IN  IF e # 0
             THEN <<text[i], " ">> \o SubSeq(text, i + 1, e) \o breakBeforeCloseTags(text, e + 1)
             ELSE <<text[i]>> \o breakBeforeCloseTags(text, i + 1)

\* options.html.breakContentsFromTags: the two replacements, one after the other
breakContentsFromTags(text) == breakBeforeCloseTags(breakAfterOpenTags(text, 1), 1)

\* the documents handed to the formatters
Bare == <<"<", "a", ">", "x", "<", "/", "a", ">">>
Spaced == <<"\n", "<", "a", ">", " ", "x", " ", "<", "/", "a", ">", "\n">>
Tight == <<"\n", "<", "a", ">", "x", "<", "/", "a", ">", "\n">>
Texts == {<<>>, Bare, Spaced, Tight}

----------------------------------------------------------------------------
(* Objects with optional properties, as records over the properties they have *)

Empty == [k \in {} |-> TRUE]
Has(object, key) == key \in DOMAIN object

\* { ...a, ...b }
Spread(a, b) ==
    [k \in DOMAIN a \cup DOMAIN b |-> IF k \in DOMAIN b THEN b[k] ELSE a[k]]

\* Array.prototype.includes
includes(array, x) == \E i \in 1..Len(array) : array[i] = x

\* what a wrapped library does when called: it throws, or returns a text
Throws == [throws |-> TRUE, output |-> <<>>]
Returns(text) == [throws |-> FALSE, output |-> text]
LibraryOutcomes == {Throws} \cup { Returns(t) : t \in Texts }

\* the editor's FormattingOptions
FormattingOptions == [insertSpaces : BOOLEAN, tabSize : {2, 4}]

\* context.uriToFileName
uriToFileName(uri) == CHOOSE f \in FileNames : fileNameToUri(f) = uri

\* what a provider hands back: a value, or the exception that escapes it
NoResult == [thrown |-> FALSE, returned |-> "undefined", edits |-> <<>>]
Edits(edits) == [thrown |-> FALSE, returned |-> "edits", edits |-> edits]
Thrown == [thrown |-> TRUE, returned |-> "nothing", edits |-> <<>>]

----------------------------------------------------------------------------
(* The prettier plugin *)

\* languagesOrDefault, were the default list used whatever the option says
languagesOrDefaultAlways(options) == <<"html", "css", "scss", "typescript", "javascript">>

\* options.languages ??= ['html', 'css', 'scss', 'typescript', 'javascript']
languagesOrDefault(options) ==
    IF Has(options, "languages") THEN options.languages
    ELSE <<"html", "css", "scss", "typescript", "javascript">>

\* currentPrettierConfig, were the editor's options applied whatever the plugin option
currentPrettierConfigIDE(options, prettierOptions, uri, formatOptions) ==
    Spread(Spread(prettierOptions, [filepath |-> uriToFileName(uri)]),
           [useTabs |-> ~formatOptions.insertSpaces, tabWidth |-> formatOptions.tabSize])

\* const currentPrettierConfig = { ...prettierOptions, filepath }, and the editor's
\* options on top of it unless options.ignoreIDEOptions
currentPrettierConfig(options, prettierOptions, uri, formatOptions) ==
    LET base == Spread(prettierOptions, [filepath |-> uriToFileName(uri)])
    IN  IF ~(Has(options, "ignoreIDEOptions") /\ options.ignoreIDEOptions)
        THEN Spread(base, [useTabs |-> ~formatOptions.insertSpaces,
                           tabWidth |-> formatOptions.tabSize])
        ELSE base

\* format(document, _, formatOptions) of the prettier plugin
format(options, prettierOptions, document, formatOptions, library) ==
    IF ~includes(languagesOrDefault(options), document.languageId)
    THEN [result |-> NoResult, called |-> FALSE, config |-> Empty, oldText |-> <<>>]
    ELSE LET fullText == document.text
             isHTML == document.languageId = "html"
             oldText == IF /\ isHTML
                           /\ Has(options, "html")
                           /\ Has(options.html, "breakContentsFromTags")
                           /\ options.html.breakContentsFromTags
                        THEN breakContentsFromTags(fullText)
                        ELSE fullText
             current == currentPrettierConfig(options, prettierOptions, document.uri,
                                              formatOptions)
             newText == <<"\n">> \o trim(library.output) \o <<"\n">>
         IN  [called |-> TRUE, config |-> current, oldText |-> oldText,
              result |->
                 IF library.throws THEN Thrown
                 ELSE IF newText = oldText THEN Edits(<<>>)
                 ELSE Edits(<< [start |-> 0, end |-> Len(fullText), newText |-> newText] >>)]

PluginOptions ==
    { Spread(Spread(l, h), i) :
        l \in { Empty, [languages |-> <<>>], [languages |-> <<"markdown", "css">>] },
        h \in { Empty, [html |-> Empty], [html |-> [breakContentsFromTags |-> TRUE]] },
        i \in { Empty, [ignoreIDEOptions |-> TRUE], [ignoreIDEOptions |-> FALSE] } }

\* what getPrettierConfig() resolved
PrettierConfigs == { Empty, [tabWidth |-> 8], [useTabs |-> TRUE, tabWidth |-> 8] }

FormatDocuments ==
    { [uri |-> fileNameToUri("a"), languageId |-> l, text |-> t] :
        l \in {"html", "css", "markdown"}, t \in {Bare, Tight} }

Format ==
    /\ Idle
    /\ \E options \in PluginOptions, prettierOptions \in PrettierConfigs,
          document \in FormatDocuments, formatOptions \in FormattingOptions,
          library \in {Throws, Returns(Bare), Returns(Spaced)} :
           /\ call' = [name |-> "format", options |-> options,
                       prettierOptions |-> prettierOptions, document |-> document,
                       formatOptions |-> formatOptions, library |-> library,
                       out |-> format(options, prettierOptions, document, formatOptions,
                                      library)]
           /\ UNCHANGED <<tracker, json, vetur>>

----------------------------------------------------------------------------
(* The prettyhtml plugin *)

\* document.getText(range), the range given by its offsets
getText(text, start, end) == SubSeq(text, start + 1, end)

\* provideDocumentFormattingEdits, were the edit's text the formatted range alone
provideDocumentFormattingEditsRangeOnly(configs, document, range, options, library) ==
    IF document.languageId # "html"
    THEN [result |-> NoResult, called |-> FALSE, config |-> Empty]
    ELSE LET oldRangeText == getText(document.text, range.start, range.end)
             newRangeText == library.output
         IN  [called |-> TRUE,
              config |-> Spread(configs, [tabWidth |-> options.tabSize,
                                          useTabs |-> ~options.insertSpaces]),
              result |->
                 IF library.throws THEN Thrown
                 ELSE IF newRangeText = oldRangeText THEN Edits(<<>>)
                 ELSE Edits(<< [start |-> 0, end |-> Len(document.text),
                                newText |-> newRangeText] >>)]

\* provideDocumentFormattingEdits(document, range, options)
provideDocumentFormattingEdits(configs, document, range, options, library) ==
    IF document.languageId # "html"
    THEN [result |-> NoResult, called |-> FALSE, config |-> Empty]
    ELSE LET oldRangeText == getText(document.text, range.start, range.end)
             newRangeText == library.output
             newText == getText(document.text, 0, range.start)
                        \o newRangeText
                        \o getText(document.text, range.end, Len(document.text))
         IN  [called |-> TRUE,
              config |-> Spread(configs, [tabWidth |-> options.tabSize,
                                          useTabs |-> ~options.insertSpaces]),
              result |->
                 IF library.throws THEN Thrown
                 ELSE IF newRangeText = oldRangeText THEN Edits(<<>>)
                 ELSE Edits(<< [start |-> 0, end |-> Len(document.text),
                                newText |-> newText] >>)]

\* the ranges asked for: the whole text, its inside, its first character
Ranges(text) ==
    { [start |-> 0, end |-> Len(text)], [start |-> 1, end |-> Len(text) - 1],
      [start |-> 0, end |-> 1] }

ProvideDocumentFormattingEdits ==
    /\ Idle
    /\ \E configs \in { Empty, [tabWidth |-> 8] },
          document \in { d \in FormatDocuments : d.languageId # "css" },
          options \in FormattingOptions,
          library \in {Throws, Returns(<<"x">>), Returns(<<"<">>), Returns(Bare)} :
       \E range \in Ranges(document.text) :
           /\ call' = [name |-> "provideDocumentFormattingEdits", configs |-> configs,
                       document |-> document, range |-> range, formatOptions |-> options,
                       library |-> library,
                       out |-> provideDocumentFormattingEdits(configs, document, range,
                                                              options, library)]
           /\ UNCHANGED <<tracker, json, vetur>>

----------------------------------------------------------------------------
(* The typescript plugin: resolving a completion item *)

\* isValidFunctionCompletionContext(client, filepath, offset, document)
isValidFunctionCompletionContext(quickInfo, alreadyCall) ==
    IF quickInfo \in {"var", "let", "const", "alias"} THEN FALSE
    ELSE ~alreadyCall

\* register(ctx): async (item, newPosition) => { ... }
resolve(item, document, lookup, useCodeSnippet, quickInfo, alreadyCall) ==
    IF ~item.data THEN [thrown |-> FALSE, item |-> item]
    ELSE IF lookup = "throws"
    THEN [thrown |-> FALSE, item |-> [item EXCEPT !.detail = "[TS Error]"]]
    ELSE IF lookup = "undefined"
    THEN [thrown |-> FALSE, item |-> item]
    ELSE LET snippet == /\ document
                        /\ useCodeSnippet
                        /\ isValidFunctionCompletionContext(quickInfo, alreadyCall)
         IN  [thrown |-> FALSE,
              item |-> [item EXCEPT !.detail = "displayParts",
                                    !.documentation = TRUE,
                                    !.insertTextFormat =
                                        IF snippet THEN "snippet" ELSE @]]

CompletionItems ==
    [data : BOOLEAN, detail : {""}, documentation : {FALSE}, insertTextFormat : {"plain"}]

ResolveCompletionItem ==
    /\ Idle
    /\ \E item \in CompletionItems, document \in BOOLEAN,
          lookup \in {"throws", "undefined", "details"}, useCodeSnippet \in BOOLEAN,
          quickInfo \in {"throws", "const", "function"}, alreadyCall \in BOOLEAN :
           /\ call' = [name |-> "resolveCompletionItem", item |-> item, lookup |-> lookup,
                       quickInfo |-> quickInfo,
                       resolved |-> resolve(item, document, lookup, useCodeSnippet,
                                            quickInfo, alreadyCall)]
           /\ UNCHANGED <<tracker, json, vetur>>

\* the formatters and the completion resolver, each called with its wrapped library
NextFormat ==
    \/ Format
    \/ ProvideDocumentFormattingEdits
    \/ ResolveCompletionItem

SpecFormat == Init /\ [][NextFormat]_vars

----------------------------------------------------------------------------
(* The position mapper (pugDoc.map), as the specification describes it *)

\* the result 'none' of a mapping
None == Undefined

Range(start, end) == [start |-> start, end |-> end]
NoRange == Range(None, None)

\* a mapped span: generated-range content is source-range content, verbatim
MappedSpans ==
    { [source |-> Range(s, s + n), generated |-> Range(g, g + n)] :
        s \in 0..MaxOffset, g \in 0..MaxOffset,
        n \in 0..MaxOffset } \cap
    [source : [start : 0..MaxOffset, end : 0..MaxOffset],
     generated : [start : 0..MaxOffset, end : 0..MaxOffset]]

\* sorted, non-overlapping, increasing in both coordinate spaces
Monotonic(spans) ==
    \A i, j \in 1..Len(spans) :
        i < j => /\ spans[i].source.end <= spans[j].source.start
                 /\ spans[i].generated.end <= spans[j].generated.start

SpanLists ==
    UNION { { spans \in [1..n -> MappedSpans] : Monotonic(spans) } : n \in 0..MaxSpans }

\* left-closed, right-open; a zero-length range is the insertion point at its start
Contains(range, p) ==
    \/ range.start <= p /\ p < range.end
    \/ range.start = range.end /\ p = range.start

\* spanAt, were the first span containing the position taken
spanAtFirst(spans, side, p) ==
    LET hits == { i \in 1..Len(spans) : Contains(spans[i][side], p) }
    IN  IF hits = {} THEN 0 ELSE CHOOSE i \in hits : \A j \in hits : i <= j

\* the span whose range on `side` contains p, the following one at a boundary; 0 in a gap
spanAt(spans, side, p) ==
    LET hits == { i \in 1..Len(spans) : Contains(spans[i][side], p) }
    IN  IF hits = {} THEN 0 ELSE CHOOSE i \in hits : \A j \in hits : j <= i

toGeneratedPosition(spans, sourcePos) ==
    LET i == spanAt(spans, "source", sourcePos)
    IN  IF i = 0 THEN None
        ELSE spans[i].generated.start + (sourcePos - spans[i].source.start)

toSourcePosition(spans, generatedPos) ==
    LET i == spanAt(spans, "generated", generatedPos)
    IN  IF i = 0 THEN None
        ELSE spans[i].source.start + (generatedPos - spans[i].generated.start)

\* the range variant: both ends mapped, none when either falls in a gap
toSourceRange(spans, range) ==
    LET start == toSourcePosition(spans, range.start)
        end == toSourcePosition(spans, range.end)
    IN  IF start = None \/ end = None THEN NoRange ELSE Range(start, end)

----------------------------------------------------------------------------
(* The pug plugin: hover and document highlights over the generated HTML *)

\* what the wrapped HTML service answers
NoHover == [found |-> FALSE, ranged |-> FALSE, range |-> Range(0, 0)]
HoverAt(range) == [found |-> TRUE, ranged |-> TRUE, range |-> range]
HoverUnranged == [found |-> TRUE, ranged |-> FALSE, range |-> Range(0, 0)]

\* what a pug service hands back, and whether it called the HTML service
NotInvoked == [returned |-> "undefined", invoked |-> FALSE, ranges |-> <<>>]
Invoked(returned, ranges) == [returned |-> returned, invoked |-> TRUE, ranges |-> ranges]

\* hover, were the HTML service asked whatever the mapping gave
hoverUnguarded(spans, pos, htmlResult) ==
    IF ~htmlResult.found THEN Invoked("undefined", <<>>)
    ELSE Invoked("hover", <<>>)

\* hover.ts register(htmlLs): (pugDoc, pos, options) => { ... }
\* htmlPos is a Position object: !htmlPos holds of undefined alone
hover(spans, pos, htmlResult) ==
    LET htmlPos == toGeneratedPosition(spans, pos)
    IN  IF htmlPos = None THEN NotInvoked
        ELSE IF ~htmlResult.found THEN Invoked("undefined", <<>>)
        ELSE IF ~htmlResult.ranged THEN Invoked("hover", <<>>)
        ELSE LET range == toSourceRange(spans, htmlResult.range)
             IN  IF range = NoRange THEN Invoked("undefined", <<>>)
                 ELSE Invoked("hover", <<range>>)

\* transformLocations: the locations whose range maps back, in their order
RECURSIVE transformLocations(_, _, _)
transformLocations(spans, ranges, i) ==
    IF i > Len(ranges) THEN <<>>
    ELSE LET range == toSourceRange(spans, ranges[i])
         IN  (IF range = NoRange THEN <<>> ELSE <<range>>)
             \o transformLocations(spans, ranges, i + 1)

\* documentHighlight.ts register(htmlLs): (pugDoc, pos) => { ... }
documentHighlight(spans, pos, htmlResult) ==
    LET htmlPos == toGeneratedPosition(spans, pos)
    IN  IF htmlPos = None THEN NotInvoked
        ELSE Invoked("locations", transformLocations(spans, htmlResult, 1))

\* a position of the pug document is mapped to the HTML and back
MapPosition ==
    /\ Idle
    /\ \E spans \in SpanLists, pos \in 0..MaxOffset :
          LET generated == toGeneratedPosition(spans, pos)
          IN  /\ call' = [name |-> "map", spans |-> spans, pos |-> pos,
                          generated |-> generated,
                          source |-> IF generated = None THEN None
                                     ELSE toSourcePosition(spans, generated)]
              /\ UNCHANGED <<tracker, json, vetur>>

PugHover ==
    /\ Idle
    /\ \E spans \in SpanLists, pos \in 0..MaxOffset,
          htmlResult \in {NoHover, HoverUnranged, HoverAt(Range(0, 1))} :
          /\ call' = [name |-> "hover", spans |-> spans, pos |-> pos,
                      served |-> hover(spans, pos, htmlResult)]
          /\ UNCHANGED <<tracker, json, vetur>>

PugDocumentHighlight ==
    /\ Idle
    /\ \E spans \in SpanLists, pos \in 0..MaxOffset,
          htmlResult \in {<<>>, <<Range(0, 1)>>, <<Range(0, 1), Range(1, 2)>>} :
          /\ call' = [name |-> "documentHighlight", spans |-> spans, pos |-> pos,
                      served |-> documentHighlight(spans, pos, htmlResult)]
          /\ UNCHANGED <<tracker, json, vetur>>

\* the pug services and the mapping they rest on
NextPug ==
    \/ MapPosition
    \/ PugHover
    \/ PugDocumentHighlight

\* the markdown plugin plays no part here: one configuration of it stands for all
InitPug == Init /\ variant = "current" /\ hasTs /\ hasVersion

SpecPug == InitPug /\ [][NextPug]_vars

\* the walk of sync over every kind of source file
NextWalk ==
    \/ HostOpen
    \/ HostRemove
    \/ ProvideWorkspaceSymbols
    \/ ListenerReturn

SpecWalk == Init /\ [][NextWalk]_vars

\* dispose, were the watch subscription all it released
disposeWatcherOnly == {"fileWatcher"}

\* dispose(): what it releases
dispose ==
    {"ls", "fileWatcher", "onDidDeleteMarkdownDocument",
     "onDidCreateMarkdownDocument", "onDidChangeMarkdownDocument"}

\* the host disposes of the plugin instance
Dispose ==
    /\ stack = <<>>
    /\ disposed = {}
    /\ disposed' = dispose
    /\ op' = Op("dispose", "", "", FALSE)
    /\ doneSync' = NoSync
    /\ got' = NoGot
    /\ observed' = NotObserved
    /\ Fire(<<>>, FALSE)
    /\ call' = NoCall
    /\ UNCHANGED <<json, vetur>>
    /\ UNCHANGED <<config, host, lastProjectVersion, syncedVersions, stack, syncedAt, held>>

\* both revisions, on a host that has a language context and tells its version
InitDispose == Init /\ hasTs /\ hasVersion

\* the host changes the one file of a small project
HostSetOne == \E c \in FileChoices(projectVersion + 1) : HostSetFile("a", c)

\* the feature requests of the markdown plugin
NextProviders ==
    \/ HostSetOne
    \/ ProvideFeature
    \/ ProvideWorkspaceSymbols
    \/ ListenerReturn

SpecProviders == InitDispose /\ [][NextProviders]_vars

\* a plugin instance that is disposed of while requests and watch events go on
NextDispose ==
    \/ HostSet
    \/ ProvideWorkspaceSymbols
    \/ ListenerReturn
    \/ FileWatch
    \/ Dispose

SpecDispose == InitDispose /\ [][NextDispose]_vars

\* the newer adapter on a host without typescript language context: its requests,
\* the consumer of getAllMarkdownDocuments and the watcher; no listener of sync runs
NextNoContext ==
    \/ HostSet
    \/ HostRemove
    \/ GetAllMarkdownDocuments
    \/ ConsumerIterate
    \/ Provide
    \/ ProvideWorkspaceSymbols
    \/ FileWatch

InitNoContext == Init /\ variant = "current" /\ ~hasTs

SpecNoContext == InitNoContext /\ [][NextNoContext]_vars

\* the host registers a file, one whose nodes have no document among the choices
HostLoad ==
    \E f \in FileNames :
        \E c \in FileChoices(projectVersion + 1) \cup {Unprovided(TreeA, projectVersion + 1)} :
            HostSetFile(f, c)

\* provideWorkspaceSymbols(query, token), over documents that may be missing
WorkspaceSymbols ==
    IF /\ syncRuns(variant, hasTs, hasVersion, projectVersion, lastProjectVersion)
       /\ walkFails(variant, files)
    THEN WalkThrows
    ELSE ProvideWorkspaceSymbols

\* syncs over a document store that yields no document for some nodes
NextStore ==
    \/ HostLoad
    \/ HostRemove
    \/ WorkspaceSymbols
    \/ ListenerReturn

SpecStore == Init /\ [][NextStore]_vars

\* syncs over a document provider that may fail
NextFailing ==
    \/ HostSet
    \/ HostRemove
    \/ ProvideWorkspaceSymbols
    \/ ListenerReturn
    \/ WalkThrows

SpecFailing == Init /\ [][NextFailing]_vars

----------------------------------------------------------------------------
(* The vetur plugin: the package.json of a document, and its HTML parse *)

\* path.dirname: the directory above, and the root for the root
dirname(p) == IF p = <<>> THEN <<>> ELSE SubSeq(p, 1, Len(p) - 1)

RECURSIVE walkUp(_, _, _)
\* walkUp, were the root directory not looked into
walkUpBelowRoot(lastDirname, existing, steps) ==
    LET dir == dirname(lastDirname)
    IN  IF dir = lastDirname \/ dir = <<>> THEN [path |-> NotFound, steps |-> steps]
        ELSE IF dir \in existing THEN [path |-> Found(dir), steps |-> steps + 1]
        ELSE walkUp(dir, existing, steps + 1)

\* while (true) { ... }: from lastDirname upwards, counting the directories tried
walkUp(lastDirname, existing, steps) ==
    LET dir == dirname(lastDirname)
    IN  IF dir = lastDirname THEN [path |-> NotFound, steps |-> steps]
        ELSE IF dir \in existing THEN [path |-> Found(dir), steps |-> steps + 1]
        ELSE walkUp(dir, existing, steps + 1)

getPackageJsonPath(uri, cache, existing) ==
    IF cache[uri].found
    THEN [path |-> cache[uri], steps |-> 0, cache |-> cache]
    ELSE LET r == IF uri.scheme = "file" THEN walkUp(uri.fsPath, existing, 0)
                  ELSE [path |-> NotFound, steps |-> 0]
         IN  [path |-> r.path, steps |-> r.steps,
              cache |-> [cache EXCEPT ![uri] = r.path]]

\* a provider asks for the package.json of a document
GetPackageJsonPath ==
    \E uri \in DocumentUris :
        LET r == getPackageJsonPath(uri, uriToPackageJsonPath, packageJsons)
        IN /\ uriToPackageJsonPath' = r.cache
           /\ call' = [name |-> "getPackageJsonPath", uri |-> uri,
                       path |-> r.path, steps |-> r.steps]
           /\ UNCHANGED <<tracker, json, packageJsons, htmlDocuments, htmlParsed>>

\* a package.json is written to a directory, or removed from it
WritePackageJson ==
    \E dir \in Dirs \ packageJsons :
        /\ packageJsons' = packageJsons \cup {dir}
        /\ call' = NoCall
        /\ UNCHANGED <<tracker, json, uriToPackageJsonPath, htmlDocuments, htmlParsed>>

RemovePackageJson ==
    \E dir \in packageJsons :
        /\ packageJsons' = packageJsons \ {dir}
        /\ call' = NoCall
        /\ UNCHANGED <<tracker, json, uriToPackageJsonPath, htmlDocuments, htmlParsed>>

\* getHtmlDocument, were the parse kept for one version of the document only
getHtmlDocumentVersioned(d, docs, cache, parses) ==
    IF docs[d].languageId # "html"
    THEN [returned |-> Undefined, cache |-> cache, parses |-> parses]
    ELSE IF cache[d] # 0 /\ parses[cache[d]].version = docs[d].version
    THEN [returned |-> cache[d], cache |-> cache, parses |-> parses]
    ELSE [returned |-> Len(parses) + 1,
          cache |-> [cache EXCEPT ![d] = Len(parses) + 1],
          parses |-> Append(parses, [document |-> d, version |-> docs[d].version])]

\* an HTMLDocument is known by the call of parseHTMLDocument that made it
getHtmlDocument(d, docs, cache, parses) ==
    IF docs[d].languageId # "html"
    THEN [returned |-> Undefined, cache |-> cache, parses |-> parses]
    ELSE IF cache[d] # 0
    THEN [returned |-> cache[d], cache |-> cache, parses |-> parses]
    ELSE [returned |-> Len(parses) + 1,
          cache |-> [cache EXCEPT ![d] = Len(parses) + 1],
          parses |-> Append(parses, [document |-> d, version |-> docs[d].version])]

\* htmlWorker asks for the parse of the document it was given
GetHtmlDocument ==
    \E d \in TextDocumentIds :
        LET r == getHtmlDocument(d, textDocuments, htmlDocuments, htmlParsed)
        IN /\ htmlDocuments' = r.cache
           /\ htmlParsed' = r.parses
           /\ call' = [name |-> "getHtmlDocument", document |-> d,
                       returned |-> r.returned]
           /\ UNCHANGED <<tracker, json, packageJsons, uriToPackageJsonPath>>

NextPackageJson ==
    \/ GetPackageJsonPath
    \/ WritePackageJson
    \/ RemovePackageJson

SpecPackageJson == InitPug /\ [][NextPackageJson]_vars

\* the file-watch handler alone, over a project the host fills and empties
NextRelay ==
    \/ HostSet
    \/ HostRemove
    \/ WatchedFilesChange

SpecRelay == Init /\ [][NextRelay]_vars

----------------------------------------------------------------------------
(* The json plugin: the parse of a document, cached under its version *)

\* documentSelector = ['json', 'jsonc']
JsonDocumentSelector == <<StringSel("json"), StringSel("jsonc")>>

\* a JSONDocument is known by the call of parseJSONDocument that made it
Parse(d, version) == [document |-> d, version |-> version]

\* the mutant keeps the first parse of a document whatever its version
getJsonDocumentAnyVersion(selector, d, docs, cache, parses) ==
    IF ~matchDocument(selector, docs[d])
    THEN [returned |-> Undefined, cache |-> cache, parses |-> parses]
    ELSE IF cache[d].cached
    THEN [returned |-> cache[d].doc, cache |-> cache, parses |-> parses]
    ELSE LET doc == Len(parses) + 1
         IN [returned |-> doc,
             cache |-> [cache EXCEPT ![d] = [cached |-> TRUE,
                                             version |-> docs[d].version,
                                             doc |-> doc]],
             parses |-> Append(parses, Parse(d, docs[d].version))]

getJsonDocument(selector, d, docs, cache, parses) ==
    IF ~matchDocument(selector, docs[d])
    THEN [returned |-> Undefined, cache |-> cache, parses |-> parses]
    ELSE IF cache[d].cached /\ cache[d].version = docs[d].version
    THEN [returned |-> cache[d].doc, cache |-> cache, parses |-> parses]
    ELSE LET doc == Len(parses) + 1
         IN [returned |-> doc,
             cache |-> [cache EXCEPT ![d] = [cached |-> TRUE,
                                             version |-> docs[d].version,
                                             doc |-> doc]],
             parses |-> Append(parses, Parse(d, docs[d].version))]

\* a consumer asks for the parse of a document through 'json/jsonDocument'
GetJsonDocument ==
    \E d \in TextDocumentIds :
        LET r == getJsonDocument(JsonDocumentSelector, d, textDocuments,
                                 jsonDocuments, parsed)
        IN /\ jsonDocuments' = r.cache
           /\ parsed' = r.parses
           /\ call' = [name |-> "getJsonDocument", document |-> d,
                       returned |-> r.returned]
           /\ UNCHANGED <<tracker, textDocuments, settings, vetur>>

\* the host edits a document: the same object, with the next version
TextDocumentUpdate ==
    \E d \in TextDocumentIds :
        /\ textDocuments[d].version < MaxVersion
        /\ textDocuments' = [textDocuments EXCEPT ![d].version = @ + 1]
        /\ call' = NoCall
        /\ UNCHANGED <<tracker, jsonDocuments, parsed, settings, vetur>>

NextJson ==
    \/ GetJsonDocument
    \/ TextDocumentUpdate

SpecJson == InitPug /\ [][NextJson]_vars

\* initialize() as it is called: getLanguageSettings has not answered yet
Started(now) == [epoch |-> now, done |-> FALSE, read |-> FALSE, settings |-> 0]

\* worker, were initialize() called by every worker call
workerEager(selector, d, docs, cache, parses, promise, promises, now) ==
    LET r == getJsonDocument(selector, d, docs, cache, parses)
    IN  IF r.returned = Undefined
        THEN [awaits |-> 0, cache |-> r.cache, parses |-> r.parses,
              initializing |-> promise, initializations |-> promises]
        ELSE [awaits |-> Len(promises) + 1, cache |-> r.cache, parses |-> r.parses,
              initializing |-> Len(promises) + 1,
              initializations |-> Append(promises, Started(now))]

\* worker, up to its await: the promise it waits for, none for a document that has
\* no JSONDocument; a promise is known by the call of initialize() that made it
worker(selector, d, docs, cache, parses, promise, promises, now) ==
    LET r == getJsonDocument(selector, d, docs, cache, parses)
    IN  IF r.returned = Undefined
        THEN [awaits |-> 0, cache |-> r.cache, parses |-> r.parses,
              initializing |-> promise, initializations |-> promises]
        ELSE IF promise # 0
        THEN [awaits |-> promise, cache |-> r.cache, parses |-> r.parses,
              initializing |-> promise, initializations |-> promises]
        ELSE [awaits |-> Len(promises) + 1, cache |-> r.cache, parses |-> r.parses,
              initializing |-> Len(promises) + 1,
              initializations |-> Append(promises, Started(now))]

\* the worker calls in flight, each in a slot of its own
FreeSlots == (1..MaxWorkers) \ { w.slot : w \in workers }

\* the documents the providers are called with: one that the selector matches and
\* one that it does not
WorkerDocuments == {"d1", "d3"}

\* a provider of the json plugin is called and runs up to its await
Worker ==
    \E d \in WorkerDocuments :
        LET r == worker(JsonDocumentSelector, d, textDocuments, jsonDocuments, parsed,
                        initializing, initializations, epoch)
        IN /\ FreeSlots # {}
           /\ jsonDocuments' = r.cache
           /\ parsed' = r.parses
           /\ initializing' = r.initializing
           /\ initializations' = r.initializations
           /\ workers' = IF r.awaits = 0 THEN workers
                         ELSE workers \cup {[slot |-> CHOOSE n \in FreeSlots : TRUE,
                                             document |-> d, awaits |-> r.awaits]}
           /\ call' = [name |-> "worker", document |-> d, awaits |-> r.awaits]
           /\ UNCHANGED <<tracker, textDocuments, epoch, configurations, vetur>>

\* getLanguageSettings answers an initialize() with the settings then in force; the
\* settings after the n-th settings-change notification are known by the number n
GetLanguageSettings ==
    \E k \in DOMAIN initializations :
        /\ ~initializations[k].read
        /\ initializations' = [initializations EXCEPT ![k].read = TRUE,
                                                      ![k].settings = epoch]
        /\ call' = [name |-> "getLanguageSettings", initialization |-> k]
        /\ UNCHANGED <<tracker, textDocuments, jsonDocuments, parsed, initializing,
                       epoch, workers, configurations, vetur>>

\* initialize() ends: getLanguageSettings has resolved and jsonLs.configure was called
Configure ==
    \E k \in DOMAIN initializations :
        /\ initializations[k].read
        /\ ~initializations[k].done
        /\ initializations' = [initializations EXCEPT ![k].done = TRUE]
        /\ configurations' = Append(configurations, initializations[k].settings)
        /\ call' = [name |-> "configure", initialization |-> k]
        /\ UNCHANGED <<tracker, textDocuments, jsonDocuments, parsed, initializing,
                       epoch, workers, vetur>>

\* a worker call goes on after its await and runs its callback
WorkerCallback ==
    \E w \in workers :
        /\ initializations[w.awaits].done
        /\ workers' = workers \ {w}
        /\ call' = [name |-> "callback", document |-> w.document, awaited |-> w.awaits]
        /\ UNCHANGED <<tracker, textDocuments, jsonDocuments, parsed, initializing,
                       initializations, epoch, configurations, vetur>>

\* onDidChangeLanguageSettings(() => initializing = undefined)
SettingsChange ==
    /\ epoch < MaxEpoch
    /\ epoch' = epoch + 1
    /\ initializing' = 0
    /\ call' = NoCall
    /\ UNCHANGED <<tracker, textDocuments, jsonDocuments, parsed, initializations,
                   workers, configurations, vetur>>

\* the providers of the json plugin while the language settings change
NextSettings ==
    \/ Worker
    \/ GetLanguageSettings
    \/ Configure
    \/ WorkerCallback
    \/ SettingsChange

SpecSettings == InitPug /\ [][NextSettings]_vars

\* the html parse of vetur, over documents the host edits
NextHtml ==
    \/ GetHtmlDocument
    \/ TextDocumentUpdate

SpecHtml == InitPug /\ [][NextHtml]_vars

----------------------------------------------------------------------------
(* What the project holds, stated apart from the walk *)

RECURSIVE Nodes(_)
Nodes(code) ==
    {code} \cup UNION { Nodes(code.embeddedCodes[i]) : i \in 1..Len(code.embeddedCodes) }

\* the documents whose source file or embedded node matches the selector
ExpectedDocs(v, fs) ==
    { Doc(f, fs[f].languageId, fs[f].snapshot) :
        f \in { g \in FileNames : fs[g].kind = "plain" /\ Matches(v, fs[g]) } }
    \cup UNION { { Doc(embeddedUri(v, sourceFileId(v, f), n.id), n.languageId, fs[f].snapshot) :
                    n \in { m \in Nodes(fs[f].code) : Matches(v, m) } }
                 : f \in { g \in FileNames : fs[g].kind = "generated" } }

DocSet(m) == { m[i] : i \in 1..Len(m) }

Count(events, type, uri) ==
    Cardinality({ i \in 1..Len(events) : events[i].type = type /\ events[i].uri = uri })

CountAll(events, uri) ==
    Cardinality({ i \in 1..Len(events) : events[i].uri = uri })

\* the step just taken was a call of sync
SyncCalled(o) ==
    /\ o.step = "call"
    /\ o.name \in SyncTriggers
    /\ o.name = "prepare" => o.result = "true"

----------------------------------------------------------------------------
(* C1 *)

\* C1 (as claimed): a sync called again with no change of the project in between
\* fires no event and leaves the tracked set as it was
C1_RepeatedSyncIsNoOp ==
    [][ (SyncCalled(op') /\ op'.repeat)
        => (fired' = <<>> /\ syncedVersions' = syncedVersions) ]_vars

\* C1 (amended): the same, when the host reports a project version
C1_RepeatedSyncIsNoOpWithVersion ==
    [][ (/\ SyncCalled(op')
         /\ op'.repeat
         /\ getProjectVersion(variant, hasTs, hasVersion, projectVersion) # Undefined)
        => (fired' = <<>> /\ syncedVersions' = syncedVersions) ]_vars

C1_Witness ==
    /\ SyncCalled(op)
    /\ op.repeat
    /\ getProjectVersion(variant, hasTs, hasVersion, projectVersion) # Undefined
    /\ syncedVersions # <<>>
    /\ fired = <<>>

----------------------------------------------------------------------------
(* C2 *)

RECURSIVE pairedFrom(_, _, _)
\* each 'created' comes to a URI not alive, each 'deleted' to one that is
pairedFrom(alive, events, i) ==
    IF i > Len(events) THEN TRUE
    ELSE /\ events[i].type = "created" => events[i].uri \notin alive
         /\ events[i].type = "deleted" => events[i].uri \in alive
         /\ pairedFrom(applyEvents(alive, <<events[i]>>, 1), events, i + 1)

\* C2 (as claimed): over all events delivered, from sync and from the file-watch
\* handler alike, no URI gets two 'created' without a 'deleted' between them,
\* nor a 'deleted' without a 'created' before it
C2_CreateDeletePairing == [][ pairedFrom(live, fired', 1) ]_vars

\* C2 (amended): among the events sync fires, no URI gets two 'created' without a
\* 'deleted' between them, nor a 'deleted' without a 'created' before it
C2_SyncCreateDeletePairing ==
    [][ \A i \in 1..Len(fired') :
            fired'[i].source = "sync" =>
                /\ fired'[i].type = "created" => fired'[i].uri \notin syncLive
                /\ fired'[i].type = "deleted" => fired'[i].uri \in syncSeen
                /\ fired'[i].type = "changed" => fired'[i].uri \in syncLive ]_vars

C2_Witness ==
    /\ Len(fired) = 1
    /\ fired[1].source = "sync"
    /\ fired[1].type = "deleted"
    /\ fired[1].uri \in syncSeen
    /\ fired[1].uri \notin syncLive
    /\ live # syncLive

----------------------------------------------------------------------------
(* C3 *)

Uri(docs) == { d.uri : d \in docs }

\* C3: when a sync has recomputed, every URI it tracked whose node is gone from the
\* project got exactly one 'deleted' and is tracked no more, no other URI got a
\* 'deleted', and the tracked URIs are those reported created and not deleted since
C3_NoMissedDeletes ==
    (doneSync # NoSync /\ stack = <<>>) =>
        /\ \A u \in KeySet(doneSync.before) \ Uri(ExpectedDocs(variant, files)) :
              /\ Count(doneSync.events, "deleted", u) = 1
              /\ u \notin KeySet(syncedVersions)
        /\ \A i \in 1..Len(doneSync.events) :
              doneSync.events[i].type = "deleted" =>
                  /\ doneSync.events[i].uri \in KeySet(doneSync.before)
                  /\ doneSync.events[i].uri \notin Uri(ExpectedDocs(variant, files))
        /\ KeySet(syncedVersions) = syncLive

C3_Witness ==
    /\ doneSync # NoSync
    /\ stack = <<>>
    /\ \E u \in KeySet(doneSync.before) :
          /\ Count(doneSync.events, "deleted", u) = 1
          /\ u \notin KeySet(syncedVersions)
    /\ \E u \in KeySet(doneSync.before) : Count(doneSync.events, "changed", u) = 1

----------------------------------------------------------------------------
(* C4 *)

\* C4 (as claimed): once a call of sync has returned, the tracked set holds exactly
\* the documents of the project that match the selector
C4_SetCompleteness ==
    (SyncCalled(op) /\ stack = <<>>) =>
        DocSet(syncedVersions) = ExpectedDocs(variant, files)

\* C4 (amended): the same, when the revision that asks for a typescript language
\* context has one
C4_SetCompletenessWithProject ==
    (SyncCalled(op) /\ stack = <<>> /\ (variant = "current" => hasTs)) =>
        DocSet(syncedVersions) = ExpectedDocs(variant, files)

C4_Witness ==
    /\ SyncCalled(op)
    /\ stack = <<>>
    /\ variant = "current" => hasTs
    /\ Cardinality(DocSet(syncedVersions)) >= 2
    /\ \E f \in FileNames : files[f].kind = "generated"
    /\ \E f \in FileNames : files[f].kind = "plain" /\ files[f].languageId = "html"

----------------------------------------------------------------------------
(* C5 *)

\* C5: a sync that recomputed fired exactly one event for each URI of the old or
\* the new set and none for any other: 'changed' for a URI in both, 'created' for
\* one in the new set alone, 'deleted' for one in the old set alone
C5_EventClassification ==
    (doneSync # NoSync) =>
        LET old == KeySet(doneSync.before)
            new == KeySet(doneSync.new)
            events == doneSync.events
        IN  /\ \A i \in 1..Len(events) : events[i].uri \in old \cup new
            /\ \A u \in old \cup new :
                  /\ CountAll(events, u) = 1
                  /\ Count(events, "changed", u) = 1 <=> (u \in old /\ u \in new)
                  /\ Count(events, "created", u) = 1 <=> (u \notin old /\ u \in new)
                  /\ Count(events, "deleted", u) = 1 <=> (u \in old /\ u \notin new)

C5_Witness ==
    /\ doneSync # NoSync
    /\ \E i, j, k \in 1..Len(doneSync.events) :
          /\ doneSync.events[i].type = "changed"
          /\ doneSync.events[j].type = "created"
          /\ doneSync.events[k].type = "deleted"

\* a sync fired 'changed' for a document that is the very one it tracked before
C5_WitnessIdentical ==
    /\ doneSync # NoSync
    /\ \E d \in DocSet(doneSync.before) \cap DocSet(doneSync.new) :
          Count(doneSync.events, "changed", d.uri) = 1

----------------------------------------------------------------------------
(* C6 *)

\* the events of one sync: those for the new set, in its order, then the deletes
OrderedEvents(frame) ==
    LET events == frame.events
        n == Cardinality({ i \in 1..Len(events) : events[i].type # "deleted" })
    IN  /\ \A i \in 1..Len(events) : (events[i].type # "deleted") <=> (i <= n)
        /\ \A i \in 1..n : events[i].uri = frame.new[i].uri
        /\ (Len(events) > n) => n = Len(frame.new)

\* C6: in every sync, running or returned, all 'changed' and 'created' events were
\* fired in the iteration order of the new set, before any 'deleted' event
C6_ChangesBeforeDeletes ==
    /\ \A k \in 1..Len(stack) : OrderedEvents(stack[k])
    /\ doneSync # NoSync => OrderedEvents(doneSync)

C6_Witness ==
    /\ doneSync # NoSync
    /\ Len(doneSync.events) >= 3
    /\ doneSync.events[1].type # "deleted"
    /\ doneSync.events[2].type # "deleted"
    /\ doneSync.events[Len(doneSync.events)].type = "deleted"

----------------------------------------------------------------------------
(* C7 *)

\* C7: while a listener of a sync runs, the tracked set is still the one from
\* before that sync
C7_TrackedSetReplacedAfterwards ==
    stack # <<>> => syncedVersions = stack[1].before

----------------------------------------------------------------------------
(* C8 *)

\* C8: what a listener gets from getAllMarkdownDocuments while a sync is firing its
\* events is the whole old set or the whole new set of that sync
C8_NoPartialSetObserved ==
    observed.seen =>
        \/ DocSet(observed.docs) = DocSet(observed.old)
        \/ DocSet(observed.docs) = DocSet(observed.new)

----------------------------------------------------------------------------
(* C9 *)

\* C9: what a consumer reads from the result of getAllMarkdownDocuments is the
\* tracked set as it was when the call returned
C9_GetAllIsSnapshot == got.read => got.docs = got.atCall

----------------------------------------------------------------------------
(* C10 *)

WorkspaceQueries ==
    {"fileWatcher", "hasMarkdownDocument", "openMarkdownDocument", "readDirectory",
     "stat", "getContainingDocument"}

\* C10: a file-watch event and the queries hasMarkdownDocument, openMarkdownDocument,
\* readDirectory, stat and getContainingDocument leave the tracked set and the last
\* observed project version as they were
C10_OnlySyncMutates ==
    [][ (op'.name \in WorkspaceQueries /\ op'.step = "call")
        => (syncedVersions' = syncedVersions /\ lastProjectVersion' = lastProjectVersion) ]_vars

C10_Witness ==
    /\ op.name = "fileWatcher"
    /\ Len(fired) >= 1
    /\ fired[1].type = "deleted"
    /\ fired[1].uri \in KeySet(syncedVersions)
    /\ lastProjectVersion # Undefined

----------------------------------------------------------------------------
(* C11 *)

\* FileChangeType: Created = 1, Changed = 2, Deleted = 3
FileChangeType == <<"created", "changed", "deleted">>

\* the k-th of the changes the handler relays
KeptIndex(kept, k) == CHOOSE i \in kept : Cardinality({ j \in kept : j <= i }) = k

\* the events fired are the changes `kept`, in their order, each as the document
\* event of its own type for its own URI
Relays(changes, kept, events) ==
    /\ Len(events) = Cardinality(kept)
    /\ \A k \in 1..Len(events) :
          /\ events[k].type = FileChangeType[changes[KeptIndex(kept, k)].type]
          /\ events[k].uri = changes[KeptIndex(kept, k)].uri
          /\ events[k].source = "watch"

\* the URI is that of no source file of the project
OutsideProject(v, fs, uri) == \A f \in sourceFiles(v, fs) : f.uri # uri

C11_WitnessDropped ==
    /\ call.name = "fileWatcher"
    /\ call.changes[1].type = 1
    /\ OutsideProject(variant, files, call.changes[1].uri)
    /\ fired = <<>>

----------------------------------------------------------------------------
(* C12 *)

C12_WitnessCreated ==
    /\ call.name = "create"
    /\ ~call.result.thrown
    /\ call.result.made = {"emitters", "fileWatcher", "languageService"}

----------------------------------------------------------------------------
(* C13 *)

Orders(n) ==
    { p \in [1..n -> 1..n] : \A i, j \in 1..n : p[i] = p[j] => i = j }

\* C13: matchDocument is true exactly when some entry of the selector is the
\* document's languageId as a string or an object whose language is that languageId;
\* it is false for the empty selector and the same for every order of the entries
C13_SelectorMatching ==
    call.name = "matchDocument" =>
        LET selector == call.selector
            n == Len(selector)
        IN  /\ call.matched <=>
                  \E i \in 1..n :
                      \/ selector[i] = StringSel(call.languageId)
                      \/ selector[i] = ObjectSel(call.languageId)
            /\ n = 0 => ~call.matched
            /\ \A p \in Orders(n) :
                  matchDocument([i \in 1..n |-> selector[p[i]]],
                                [languageId |-> call.languageId]) = call.matched

C13_Witness ==
    /\ call.name = "matchDocument"
    /\ Len(call.selector) = 2
    /\ call.selector[1].kind = "string"
    /\ call.selector[1].value # call.languageId
    /\ call.selector[2] = ObjectSel(call.languageId)
    /\ call.matched

----------------------------------------------------------------------------
(* C14 *)

\* the wrapped library threw in the call just made
LibraryThrew(c) ==
    \/ c.name \in {"format", "provideDocumentFormattingEdits"}
          /\ c.out.called /\ c.library.throws
    \/ c.name = "resolveCompletionItem" /\ c.item.data /\ c.lookup = "throws"

\* C14: when the wrapped library throws (the completion-detail lookup, prettier's
\* format, prettyhtml), the provider still returns instead of throwing, and the
\* completion item it returns carries the failure in its detail
C14_WrappedFailureCaught ==
    LibraryThrew(call) =>
        IF call.name = "resolveCompletionItem"
        THEN ~call.resolved.thrown /\ call.resolved.item.detail = "[TS Error]"
        ELSE ~call.out.result.thrown

----------------------------------------------------------------------------
(* C18 *)

\* C18: with options.ignoreIDEOptions the configuration handed to prettier is the
\* same whatever tabSize and insertSpaces the editor sends, the resolved prettier
\* configuration and the file path; without it useTabs is the negation of
\* insertSpaces and tabWidth is tabSize
C18_IgnoreIDEOptions ==
    (call.name = "format" /\ call.out.called) =>
        IF Has(call.options, "ignoreIDEOptions") /\ call.options.ignoreIDEOptions
        THEN /\ \A other \in FormattingOptions :
                    format(call.options, call.prettierOptions, call.document, other,
                           call.library).config = call.out.config
             /\ Has(call.out.config, "useTabs") <=> Has(call.prettierOptions, "useTabs")
             /\ Has(call.out.config, "tabWidth") <=> Has(call.prettierOptions, "tabWidth")
             /\ \A k \in DOMAIN call.prettierOptions :
                    call.out.config[k] = call.prettierOptions[k]
        ELSE /\ call.out.config.useTabs = ~call.formatOptions.insertSpaces
             /\ call.out.config.tabWidth = call.formatOptions.tabSize

C18_Witness ==
    /\ call.name = "format"
    /\ call.out.called
    /\ Has(call.options, "ignoreIDEOptions") /\ call.options.ignoreIDEOptions
    /\ call.formatOptions.tabSize = 4
    /\ call.formatOptions.insertSpaces
    /\ Has(call.out.config, "tabWidth") /\ call.out.config.tabWidth = 8
    /\ Has(call.out.config, "useTabs") /\ call.out.config.useTabs

\* without the option the editor's options override the resolved configuration
C18_WitnessIDE ==
    /\ call.name = "format"
    /\ call.out.called
    /\ ~Has(call.options, "ignoreIDEOptions")
    /\ Has(call.prettierOptions, "tabWidth")
    /\ call.out.config.tabWidth = 2

----------------------------------------------------------------------------
(* C19 *)

\* ['html', 'css', 'scss', 'typescript', 'javascript']
DefaultLanguages == {"html", "css", "scss", "typescript", "javascript"}

\* C19: prettier is called exactly for a document whose languageId is in
\* options.languages, or in the default list when that option is not given; for any
\* other document format returns undefined without calling prettier
C19_FormatsOnlyListedLanguages ==
    call.name = "format" =>
        LET listed ==
                IF Has(call.options, "languages")
                THEN \E i \in 1..Len(call.options.languages) :
                        call.options.languages[i] = call.document.languageId
                ELSE call.document.languageId \in DefaultLanguages
        IN  /\ call.out.called <=> listed
            /\ ~listed => call.out.result = NoResult

C19_Witness ==
    /\ call.name = "format"
    /\ ~Has(call.options, "languages")
    /\ call.document.languageId = "markdown"
    /\ ~call.out.called
    /\ call.out.result = NoResult

\* a language named in the option is formatted though the default list lacks it
C19_WitnessListed ==
    /\ call.name = "format"
    /\ Has(call.options, "languages")
    /\ call.document.languageId = "markdown"
    /\ call.out.called

----------------------------------------------------------------------------
(* C15 *)

\* the position lies inside the source range of some mapped span
InsideSourceRange(spans, p) ==
    \E i \in 1..Len(spans) : spans[i].source.start <= p /\ p < spans[i].source.end

----------------------------------------------------------------------------
(* C16 *)

\* the position lies in no mapped span, as a range or as an insertion point
InGap(spans, p) == \A i \in 1..Len(spans) : ~Contains(spans[i].source, p)

\* C16: for a position outside every mapped span the mapping gives none, and hover
\* and document highlight return undefined without calling the HTML service
C16_UnmappableGap ==
    /\ (call.name = "map" /\ InGap(call.spans, call.pos)) => call.generated = None
    /\ (call.name \in {"hover", "documentHighlight"} /\ InGap(call.spans, call.pos)) =>
          /\ call.served.returned = "undefined"
          /\ ~call.served.invoked

C16_Witness ==
    /\ call.name = "hover"
    /\ Len(call.spans) = 2
    /\ call.spans[1].source.end < call.pos
    /\ call.pos < call.spans[2].source.start
    /\ call.served = NotInvoked

\* the same position mapped, the HTML service is asked
C16_WitnessMapped ==
    /\ call.name = "documentHighlight"
    /\ ~InGap(call.spans, call.pos)
    /\ call.served.invoked
    /\ Len(call.served.ranges) = 1

----------------------------------------------------------------------------
(* C17 *)

\* the calls of parseJSONDocument made for a document at a version
ParsesOf(parses, d, version) ==
    { i \in DOMAIN parses : parses[i] = Parse(d, version) }

\* a step in which getJsonDocument was called for a document the selector matches
JsonDocumentAsked ==
    /\ call'.name = "getJsonDocument"
    /\ matchDocument(JsonDocumentSelector, textDocuments[call'.document])

\* C17: called for a matching document, getJsonDocument returns the cached parse
\* and parses nothing when the version stored for the document is its current
\* version; otherwise it parses once more and stores that parse under the current
\* version. What it returns is always the one parse made of the document at that
\* version: no document is parsed twice at one version.
C17_VersionKeyedCache ==
    [][JsonDocumentAsked =>
        LET d == call'.document
            version == textDocuments[d].version
            cache == jsonDocuments[d]
        IN /\ IF cache.cached /\ cache.version = version
              THEN /\ call'.returned = cache.doc
                   /\ parsed' = parsed
                   /\ jsonDocuments' = jsonDocuments
              ELSE /\ parsed' = Append(parsed, Parse(d, version))
                   /\ call'.returned = Len(parsed')
                   /\ jsonDocuments' =
                         [jsonDocuments EXCEPT ![d] = [cached |-> TRUE,
                                                       version |-> version,
                                                       doc |-> call'.returned]]
           /\ ParsesOf(parsed', d, version) = {call'.returned}
    ]_vars

\* the parse of a document is asked for again at the version it was parsed at,
\* after an earlier version of it had been parsed too
C17_Witness ==
    /\ call.name = "getJsonDocument"
    /\ call.returned # Undefined
    /\ call.returned < Len(parsed)
    /\ ParsesOf(parsed, call.document, textDocuments[call.document].version)
          = {call.returned}
    /\ \E i \in DOMAIN parsed :
          parsed[i].document = call.document /\ i < call.returned

\* a document the selector does not match has no parse
C17_WitnessUnmatched ==
    /\ call.name = "getJsonDocument"
    /\ call.returned = Undefined
    /\ parsed # <<>>

----------------------------------------------------------------------------
(* C20 *)

\* the sync calls whose new set is at hand: those in progress, and the last returned
Walked == { stack[i] : i \in DOMAIN stack } \cup
          (IF doneSync = NoSync THEN {} ELSE {doneSync})

\* the URIs a tree gives its nodes, for the file that owns it
TreeUris(v, fileName, sourceFile) ==
    { IF v = "legacy" THEN virtualFileId(sourceFileId(v, fileName), code)
      ELSE getVirtualCodeUri(sourceFileId(v, fileName), code)
        : code \in {"root", "e1", "e2"} }

\* C20: in the new set of a sync, a source file without tree is present under its
\* own name exactly when a document was obtained for it and its languageId matches
\* the selector; a source file with a tree is never present under its own name,
\* whatever its languageId.
C20_SourceFileItselfIsCandidate ==
    \A frame \in Walked : \A f \in FileNames :
        /\ files[f].kind \in {"plain", "undocumented"} =>
              ( MapHas(frame.new, f) <=>
                   /\ files[f].kind = "plain"
                   /\ Matches(variant, [languageId |-> files[f].languageId]) )
        /\ files[f].kind \in {"plain", "undocumented"} /\ MapHas(frame.new, f) =>
              frame.new[MapIndex(frame.new, f)] =
                 Doc(f, files[f].languageId, files[f].snapshot)
        /\ files[f].kind = "generated" => ~MapHas(frame.new, f)

\* a sync walked a markdown file with a tree, a markdown file without, and no more
C20_Witness ==
    /\ doneSync # NoSync
    /\ \E f, g \in FileNames :
          /\ files[f].kind = "generated" /\ files[f].languageId = "markdown"
          /\ files[g].kind = "plain" /\ files[g].languageId = "markdown"
          /\ MapHas(doneSync.new, g)
          /\ \E uri \in TreeUris(variant, f, files[f]) : MapHas(doneSync.new, uri)

\* a sync walked a markdown file for which no document was obtained
C20_WitnessNoDocument ==
    /\ doneSync # NoSync
    /\ \E f \in FileNames :
          files[f].kind = "undocumented" /\ files[f].languageId = "markdown"

----------------------------------------------------------------------------
(* C21 *)

\* the nodes of a tree in the order the walk visits them, and in another order
Visited(sourceFile) == forEachEmbeddedCode(sourceFile.code)
Reordered(codes, p) == [i \in 1..Len(codes) |-> codes[p[i]]]

\* what the new set of a sync holds for a source file with a tree
EntriesOf(frame, v, fileName, sourceFile) ==
    { d \in DocSet(frame.new) :
        \E n \in Nodes(sourceFile.code) :
            d.uri = embeddedUri(v, sourceFileId(v, fileName), n.id) }

\* C21: for a source file with a tree, the walk visits every node of the tree, the
\* root and the nested ones, exactly once; the new set holds, under the URI made of
\* the file's id and the node's id, exactly the visited nodes whose languageId
\* matches; and the same entries come out of the nodes visited in any other order.
C21_TreeWalk ==
    \A frame \in Walked : \A f \in FileNames :
        files[f].kind = "generated" =>
            LET codes == Visited(files[f])
                sid == sourceFileId(variant, f)
            IN /\ { codes[i] : i \in 1..Len(codes) } = Nodes(files[f].code)
               /\ Len(codes) = Cardinality(Nodes(files[f].code))
               /\ \A n \in Nodes(files[f].code) :
                     LET uri == embeddedUri(variant, sid, n.id)
                     IN IF Matches(variant, n)
                        THEN /\ MapHas(frame.new, uri)
                             /\ frame.new[MapIndex(frame.new, uri)] =
                                   Doc(uri, n.languageId, files[f].snapshot)
                        ELSE ~MapHas(frame.new, uri)
               /\ \A p \in Orders(Len(codes)) :
                     DocSet(setEmbedded(variant, sid, files[f].snapshot,
                                        Reordered(codes, p), 1, <<>>))
                        = EntriesOf(frame, variant, f, files[f])

\* a sync walked a tree with a matching node nested below a node that does not match
C21_Witness ==
    /\ doneSync # NoSync
    /\ \E f \in FileNames :
          /\ files[f].kind = "generated" /\ files[f].code = TreeB
          /\ MapHas(doneSync.new, embeddedUri(variant, sourceFileId(variant, f), "e2"))
          /\ ~MapHas(doneSync.new, embeddedUri(variant, sourceFileId(variant, f), "e1"))

----------------------------------------------------------------------------
(* C22 *)

\* C22 (as claimed): a sync that is cut short during the walk leaves
\* lastProjectVersion as it was, and the next sync, at the same project version,
\* recomputes the set
C22_VersionRecordedLast ==
    [][ /\ op'.result = "threw" => lastProjectVersion' = lastProjectVersion
        /\ ( /\ op.result = "threw"
             /\ op'.name = "provideWorkspaceSymbols" /\ op'.result = ""
             /\ op'.step = "call" /\ op'.repeat
             /\ (variant = "current" => hasTs) )
           => (doneSync' # NoSync \/ stack' # <<>>)
    ]_vars

----------------------------------------------------------------------------
(* C23 *)

\* the directories above a file, the root among them
IsPrefix(dir, path) == Len(dir) < Len(path) /\ SubSeq(path, 1, Len(dir)) = dir

\* the package.json of the nearest directory above the document, if there is one
Nearest(uri, existing) ==
    LET above == { dir \in existing : IsPrefix(dir, uri.fsPath) }
    IN  IF uri.scheme # "file" \/ above = {} THEN NotFound
        ELSE Found(CHOOSE dir \in above : \A other \in above : Len(other) <= Len(dir))

\* C23 (as claimed): what getPackageJsonPath returns is the package.json of the
\* nearest directory above the document that holds one, and undefined for a URI
\* that is no file or has no such directory
C23_NearestPackageJson ==
    call.name = "getPackageJsonPath" => call.path = Nearest(call.uri, packageJsons)

\* C23 (amended): getPackageJsonPath returns a path it found for the URI before,
\* without looking at the file system again; else it returns the package.json of
\* the nearest directory above the document, or undefined for a URI that is no file
\* or has no such directory, having tried no more directories than the path of the
\* document has, and keeps what it found. Undefined is looked up anew each time.
C23_PackageJsonPath ==
    [][call'.name = "getPackageJsonPath" =>
        LET uri == call'.uri
            cached == uriToPackageJsonPath[uri]
        IN  IF cached.found
            THEN /\ call'.path = cached
                 /\ uriToPackageJsonPath' = uriToPackageJsonPath
            ELSE /\ call'.path = Nearest(uri, packageJsons)
                 /\ call'.steps <= Len(uri.fsPath)
                 /\ uriToPackageJsonPath' =
                       [uriToPackageJsonPath EXCEPT ![uri] = call'.path]
    ]_vars

\* the root alone holds a package.json, and it was found from the deepest document
C23_Witness ==
    /\ call.name = "getPackageJsonPath"
    /\ call.uri = DocumentUri("file", [i \in 1..MaxDirDepth |-> "d"])
    /\ packageJsons = {<<>>}
    /\ call.path = Found(<<>>)
    /\ call.steps = MaxDirDepth + 1

\* the walk reached the root and found nothing
C23_WitnessNotFound ==
    /\ call.name = "getPackageJsonPath"
    /\ call.uri.scheme = "file"
    /\ call.path = NotFound
    /\ call.steps = Len(call.uri.fsPath)

\* a path found earlier is returned although a nearer package.json exists by now
C23_WitnessCached ==
    /\ call.name = "getPackageJsonPath"
    /\ call.path.found
    /\ call.path # Nearest(call.uri, packageJsons)

----------------------------------------------------------------------------
(* C24 *)

\* the calls of parseHTMLDocument made for a document, at any version
HtmlParsesOf(parses, d) == { i \in DOMAIN parses : parses[i].document = d }

\* C24: getHtmlDocument returns undefined for a document whose languageId is not
\* 'html' and parses nothing; for an html document it returns the one parse ever
\* made of that document object, made at the first call, whatever the version of
\* the document is by now.
C24_ParseKeyedByDocument ==
    [][call'.name = "getHtmlDocument" =>
        LET d == call'.document
        IN  IF textDocuments[d].languageId # "html"
            THEN /\ call'.returned = Undefined
                 /\ htmlParsed' = htmlParsed
                 /\ htmlDocuments' = htmlDocuments
            ELSE /\ HtmlParsesOf(htmlParsed', d) = {call'.returned}
                 /\ htmlDocuments'[d] = call'.returned
                 /\ HtmlParsesOf(htmlParsed, d) # {} => htmlParsed' = htmlParsed
    ]_vars

\* the parse returned for a document was made at an earlier version of it
C24_Witness ==
    /\ call.name = "getHtmlDocument"
    /\ call.returned # Undefined
    /\ htmlParsed[call.returned].version < textDocuments[call.document].version
    /\ Len(htmlParsed) > 1

----------------------------------------------------------------------------
(* C25 *)

\* C25 (as claimed): sync checks every document it gets from context.documents for
\* absence before it uses it, so a document that is missing makes no sync fail
C25_AbsenceCheckedInSync ==
    op.name = "provideWorkspaceSymbols" => op.result # "threw"

----------------------------------------------------------------------------
(* C26 *)

\* the host has a language service host, and no project version to tell
NoProjectVersion ==
    /\ variant = "current" => hasTs
    /\ getProjectVersion(variant, hasTs, hasVersion, projectVersion) = Undefined

\* C26: on a host that tells no project version every call of sync goes past the
\* version test and computes the set anew, and when it has returned it has fired
\* 'changed' once for every URI it tracked before and still tracks, also when the
\* project is the same as at the call before.
C26_NoVersionAlwaysRecomputes ==
    [][ NoProjectVersion =>
          /\ SyncCalled(op') => (doneSync' # NoSync \/ stack' # <<>>)
          /\ doneSync' # NoSync =>
                \A u \in KeySet(doneSync'.before) \cap KeySet(doneSync'.new) :
                    Count(doneSync'.events, "changed", u) = 1
      ]_vars

\* sync was called twice with nothing changed in between, and fired 'changed' again
C26_Witness ==
    /\ NoProjectVersion
    /\ op.name \in SyncTriggers /\ op.repeat
    /\ doneSync # NoSync
    /\ DocSet(doneSync.before) = DocSet(doneSync.new)
    /\ \E i \in 1..Len(doneSync.events) : doneSync.events[i].type = "changed"

----------------------------------------------------------------------------
(* C27 *)

\* C27: in the newer adapter on a host without typescript language context, sync
\* returns at once: nothing is ever tracked, lastProjectVersion is never set, what
\* getAllMarkdownDocuments hands out is empty, and every event delivered comes
\* from the file-watch handler.
C27_NoContextNoSync ==
    (variant = "current" /\ ~hasTs) =>
        /\ syncedVersions = <<>>
        /\ lastProjectVersion = Undefined
        /\ stack = <<>> /\ doneSync = NoSync
        /\ held.active => held.atCall = <<>>
        /\ got.read => got.docs = <<>>
        /\ \A i \in 1..Len(fired) : fired[i].source # "sync"

\* the project holds a markdown document, and a consumer of getAllMarkdownDocuments
\* has read what it was given
C27_Witness ==
    /\ variant = "current" /\ ~hasTs
    /\ \E f \in FileNames : files[f].kind = "plain" /\ files[f].languageId = "markdown"
    /\ got.read

\* the file-watch handler delivered an event
C27_WitnessWatch ==
    /\ variant = "current" /\ ~hasTs
    /\ fired # <<>>

----------------------------------------------------------------------------
(* C28 *)

\* C28: once dispose() was called, no step delivers a created, changed or deleted
\* event to a listener: the file-watch handler is not called any more, and what a
\* later sync fires reaches nobody.
C28_NoEventAfterDispose ==
    disposed # {} => fired = <<>>

\* after dispose() a sync ran to its end over a project that had changed, and
\* tracked a document it had not tracked before
C28_Witness ==
    /\ disposed # {}
    /\ doneSync # NoSync
    /\ \E i \in 1..Len(doneSync.events) : doneSync.events[i].type = "created"
    /\ \E i \in 1..Len(doneSync.events) : doneSync.events[i].type = "changed"

----------------------------------------------------------------------------
(* C29 *)

\* the step left the tracker as it was and delivered nothing
NoSyncMade ==
    /\ syncedAt' = syncedAt
    /\ lastProjectVersion' = lastProjectVersion
    /\ syncedVersions' = syncedVersions
    /\ stack' = stack
    /\ fired' = <<>>

\* C29: a provider given a document that does not match the selector calls neither
\* sync nor the markdown language service; given one that matches it calls sync
\* first, and the language service, if at all, after it; provideWorkspaceSymbols
\* calls sync whatever the project holds.
C29_ProvidersGatedByPrepare ==
    [][ /\ (call'.name = "provide" /\ op'.step = "call") =>
              IF Matches(variant, [languageId |-> call'.languageId])
              THEN /\ call'.calls[1] = "sync"
                   /\ \A i \in 2..Len(call'.calls) : call'.calls[i] = "ls"
                   /\ Len(call'.calls) <= 2
                   /\ syncedAt' = projectVersion
                   /\ op'.result = "true"
              ELSE /\ call'.calls = <<>>
                   /\ op'.result = "false"
                   /\ NoSyncMade
        /\ (op'.name = "provideWorkspaceSymbols" /\ op'.step = "call" /\ op' # op) =>
              syncedAt' = projectVersion
      ]_vars

\* a provider was given a document that matches, and its sync found work to do
C29_Witness ==
    /\ call.name = "provide"
    /\ call.calls = <<"sync", "ls">>
    /\ stack # <<>>
    /\ fired # <<>>

\* a provider was given a document that does not match, while the project holds
\* documents that sync would find
C29_WitnessGated ==
    /\ call.name = "provide"
    /\ call.calls = <<>>
    /\ syncedAt # projectVersion
    /\ computeNewVersions(variant, files) # <<>>

----------------------------------------------------------------------------
(* C30 *)

\* the calls of initialize() made between two settings-change notifications
StartedIn(promises, e) == { k \in DOMAIN promises : promises[k].epoch = e }

\* C30: however many worker calls overlap, initialize() is called at most once
\* between two settings-change notifications; a worker call runs its callback
\* only when the initialize() it waited for has configured the language service;
\* and a worker call for a document the selector does not match returns at once,
\* without calling initialize() and without a callback to come.
C30_SingleFlightInitialize ==
    [][ /\ \A e \in 0..epoch' : Cardinality(StartedIn(initializations', e)) <= 1
        /\ call'.name = "callback" =>
              /\ call'.awaited \in DOMAIN initializations
              /\ initializations[call'.awaited].done
        /\ ( /\ call'.name = "worker"
             /\ ~matchDocument(JsonDocumentSelector, textDocuments[call'.document]) )
           => /\ call'.awaits = 0
              /\ initializations' = initializations
              /\ initializing' = initializing
              /\ workers' = workers
      ]_vars

\* after a settings-change notification two worker calls overlap, and both wait
\* for the one initialize() made since
C30_Witness ==
    /\ epoch > 0
    /\ Len(initializations) = 2
    /\ ~initializations[2].done
    /\ \E v, w \in workers : v # w /\ v.awaits = 2 /\ w.awaits = 2

\* a callback ran
C30_WitnessCallback ==
    /\ call.name = "callback"
    /\ initializations[call.awaited].done

----------------------------------------------------------------------------
(* C31 *)

\* every initialize() called so far has ended, and there was one
AllInitialized ==
    /\ initializations # <<>>
    /\ \A k \in DOMAIN initializations : initializations[k].done

\* C31: once every initialize() that was started has ended, the json language
\* service holds the settings that the initialize() started last has read: one
\* started before a settings-change notification and ending late does not
\* overwrite what the newer one configured.
C31_NewestInitializeConfigures ==
    AllInitialized =>
        configurations[Len(configurations)] =
            initializations[Len(initializations)].settings

----------------------------------------------------------------------------
(* C32 *)

\* the text a document has once a TextEdit was applied to it
Applied(text, edit) ==
    SubSeq(text, 1, edit.start) \o edit.newText \o SubSeq(text, edit.end + 1, Len(text))

\* the last call was prettyhtml's range formatting, and the library returned
PrettyhtmlReturned ==
    /\ call.name = "provideDocumentFormattingEdits"
    /\ ~call.library.throws

\* C32: prettyhtml's range formatting returns nothing for a document that is not
\* html; returns no edit when the library gave back the text of the range as it
\* was; and otherwise returns one edit, over the whole document, whose text is
\* the text before the range, the formatted range, and the text after the range,
\* so that applying it changes nothing outside the range.
C32_RangeFormattingFrame ==
    PrettyhtmlReturned =>
        LET text == call.document.text
            start == call.range.start
            end == call.range.end
            formatted == call.library.output
            result == call.out.result
        IN  IF call.document.languageId # "html"
            THEN result = NoResult
            ELSE IF formatted = SubSeq(text, start + 1, end)
            THEN result = Edits(<<>>)
            ELSE /\ result.returned = "edits"
                 /\ Len(result.edits) = 1
                 /\ LET edit == result.edits[1]
                        after == Applied(text, edit)
                        tail == Len(text) - end
                    IN  /\ edit.start = 0
                        /\ edit.end = Len(text)
                        /\ edit.newText = SubSeq(text, 1, start) \o formatted
                                          \o SubSeq(text, end + 1, Len(text))
                        /\ SubSeq(after, 1, start) = SubSeq(text, 1, start)
                        /\ SubSeq(after, Len(after) - tail + 1, Len(after))
                              = SubSeq(text, end + 1, Len(text))

\* a range inside an html document was formatted to another text: one edit
C32_Witness ==
    /\ PrettyhtmlReturned
    /\ call.document.languageId = "html"
    /\ call.range.start > 0
    /\ call.range.end < Len(call.document.text)
    /\ Len(call.out.result.edits) = 1

\* the library gave back the text of a range that is not the whole document
C32_WitnessUnchanged ==
    /\ PrettyhtmlReturned
    /\ call.document.languageId = "html"
    /\ call.range.end < Len(call.document.text)
    /\ call.out.result = Edits(<<>>)

\* the document is not html
C32_WitnessNotHtml ==
    /\ PrettyhtmlReturned
    /\ call.document.languageId # "html"
    /\ call.out.result = NoResult

----------------------------------------------------------------------------
(* C33 *)

\* the last call was prettier's format on a language it formats, and prettier returned
PrettierReturned ==
    /\ call.name = "format"
    /\ call.out.called
    /\ ~call.library.throws

\* C33: prettier's format returns no edit exactly when its edit would leave the
\* document as it is: with the formatted text normalised to a newline, the trimmed
\* text and a newline, it returns [] if and only if that text is the document's
\* full text, whether or not breakContentsFromTags changed the text handed to
\* prettier; otherwise it returns one edit over the whole document with that text.
C33_NoEditIffUnchanged ==
    PrettierReturned =>
        LET fullText == call.document.text
            normalised == <<"\n">> \o trim(call.library.output) \o <<"\n">>
            result == call.out.result
        IN  IF normalised = fullText
            THEN result = Edits(<<>>)
            ELSE result = Edits(<< [start |-> 0, end |-> Len(fullText),
                                    newText |-> normalised] >>)

====
